---- MODULE Spec2Model ----
(***************************************************************************)
(* Model of the castbox runtime (sh1zen/Acar):                             *)
(*   - Mutex (src/src/mutex/mutex.rs): exclusive + group modes over one    *)
(*     state byte, a group counter, two parking queues and the one-bit     *)
(*     wake_deadlock guard; every atomic access is one step of the calling *)
(*     thread.                                                             *)
(*   - AnyRef / WeakAnyRef (src/src/any_ref): the strong and weak counters *)
(*     of one AnyRefInner cell and the handles the threads own.            *)
(* usize is modelled with WordBits bits (wrapping arithmetic is taken      *)
(* modulo 2^WordBits).                                                     *)
(***************************************************************************)
EXTENDS Integers, Sequences, FiniteSets, TLC

\* ------------------------------------------------------------------ bounds
NThreads ==
  2

WordBits ==
  4

MaxMisuse ==
  1

\* the payload values are 0 .. MaxValue
MaxValue ==
  1

\* how many increments the threads write through guards
MaxUpdates ==
  2

\* how many items the threads push into the AtomicVec
MaxItems ==
  3

\* how many handles the threads rebuild from raw pointers
MaxTrips ==
  1

\* the number of buckets given to AtomicHashMap::with_capacity
NBuckets ==
  2

\* the keys the threads insert, remove and look up
MaxKeys ==
  3

\* the most insert calls made for one key
MaxInserts ==
  2

\* the most map methods one thread calls
MaxCalls ==
  2

\* the most handles of one kind (AnyRef, WeakAnyRef) alive at once
MaxCount ==
  3

Threads ==
  1..NThreads

\* usize::MAX and the modulus of wrapping usize arithmetic
Modulus ==
  2 ^ WordBits

USIZE_MAX ==
  Modulus - 1

\* --------------------------------------------------- constants of mutex.rs
UNLOCKED ==
  0

LOCKED ==
  1

LOCKED_GROUP ==
  3

DIRTY ==
  4

\* backoff.rs
YIELD_LIMIT ==
  10

\* any_ref/inner.rs: isize::MAX as usize
MAX_REFCOUNT ==
  2 ^ (WordBits - 1) - 1

States ==
  {UNLOCKED, LOCKED, LOCKED_GROUP, DIRTY}

\* MutexType
Exclusive ==
  "Exclusive"

Group ==
  "Group"

VARIABLES
  state,          \* InnerMutex.state
  locked,         \* InnerMutex.locked (the group counter)
  wake_deadlock,  \* InnerMutex.wake_deadlock
  parking_e,      \* InnerMutex.parking_e : queue of thread handles
  parking_g,      \* InnerMutex.parking_g
  token,          \* the park token of each std::thread::Thread
  pc,             \* position of each thread inside the call it is running
  op,             \* the Mutex method each thread is running
  wtype,          \* the MutexType argument of the running suspend/wake/wake_all
  res,            \* the boolean a thread last computed (wake's res, try_lock's result)
  step,           \* Backoff.step of the running lock call
  holds,          \* what the caller holds: "none", "excl" or "group"
  calm,           \* no other thread took a step since this thread's call began
  misuses         \* number of unlock calls made without holding the lock

\* one AnyRefInner cell and the handles to it
VARIABLES
  strong,         \* AnyRefInner.strong
  weak,           \* AnyRefInner.weak
  dataDrops,      \* how often the payload (AnyRefInner.data) was dropped in place
  freed,          \* the allocation was passed to dealloc
  aborted,        \* std::process::abort was called
  sh,             \* number of AnyRef handles each thread owns
  wh,             \* number of (non-dangling) WeakAnyRef handles each thread owns
  rpc,            \* position of each thread inside the AnyRef call it is running
  reg,            \* the counter value the running call last read (cur, n, old)
  rres            \* the boolean the running call computed (is_unique's unique)

\* the payload of the cell, its type tag, and what left the cell
VARIABLES
  type_id,        \* AnyRefInner.type_id
  data,           \* the value stored in AnyRefInner.data
  ref_count,      \* InnerMutex.ref_count of the cell's lock
  unwrapped,      \* the thread owns a value returned by try_unwrap
  raw,            \* the raw pointers each thread got from into_raw
  wild,           \* handles rebuilt by from_raw that do not point to the cell
  rebuilt,        \* number of handles rebuilt by from_raw
  rval            \* what the last downcast call of each thread returned

\* the WatchGuardMut of each thread and its use
VARIABLES
  guard,          \* the thread owns a live WatchGuardMut
  gpc,            \* position inside try_downcast_mut / the drop of the guard
  asked,          \* the type U of the last downcast call of each thread
  local,          \* the value the thread read through its guard
  updates         \* number of increments written through guards

\* one AtomicVec of the collections module, shared by the threads through clones
VARIABLES
  head,           \* AtomicInner.head (0 is the null pointer, items are 1, 2, ...)
  tail,           \* AtomicInner.tail
  t_tail,         \* AtomicInner.t_tail, the temp tail
  next,           \* Item.next of each item
  len,            \* AtomicInner.len
  vec_state,      \* AtomicInner.state
  vpc,            \* position of each thread inside push or pop
  vitem,          \* the item the running call of each thread works on
  made,           \* number of items created by Item::new
  owner,          \* the thread whose push created each item (0: not created)
  popped          \* the items pop unlinked from the head, in the order of their removal

\* the handles of the AtomicVec and what its pops and drops saw
VARIABLES
  vref_count,     \* AtomicInner.ref_count
  vh,             \* number of AtomicVec handles (clones) each thread owns
  vfreed,         \* the items freed by the walk of Drop for AtomicVec, in its order
  vgone,          \* how often the AtomicInner was freed
  seen            \* per thread, the items pushed and not popped when its pop was called

\* the calls of AnyRef::fill
VARIABLES
  farg,           \* per thread, the arguments of its last fill and what that fill replaced
  filler          \* the thread whose fill wrote last with no other fill under way (0: none)

\* one AtomicHashMap of the collections module, shared by the threads through clones
VARIABLES
  buckets,        \* per bucket, the items linked from Bucket.head: <<key, value>> pairs
  bucket_state,   \* Bucket.state of each bucket
  ref_locked,     \* Bucket.ref_locked: the thread holding it exclusively, or 0
  map_len,        \* AtomicInner.len
  hpc,            \* position of each thread inside the map method it is running
  hkey,           \* the key argument of the running call
  hcur,           \* the item the running call found (its key), 0 for the null pointer
  it_idx,         \* Iter.bucket_idx of the thread's iterator
  it_cur,         \* Iter.current of the thread's iterator (the key of the item), 0 for null
  hhead,          \* the list the running insert loaded from Bucket.head
  inserts,        \* how often insert was called for each key
  gone,           \* remove was called for the key
  want,           \* the value of the last insert call for each key
  ncalls          \* number of map methods each thread has called

\* the value locks of the buckets and the guards that get and get_mut hand out
VARIABLES
  rl_state,       \* per bucket, InnerMutex.state of Bucket.ref_locked
  rl_locked,      \* per bucket, InnerMutex.locked of Bucket.ref_locked
  rlpc,           \* position of each thread inside the ref_locked method it is running
  hguard,         \* the value guard each thread holds: its kind and the key of its item
  hret,           \* what the last get, get_mut or remove of each thread returned
  hvict,          \* per thread, the holders of guards on the item it is about to destroy
  snap            \* the call running alone: its arguments and the map when it began

mvars ==
  <<state, locked, wake_deadlock, parking_e, parking_g, token, pc, op, wtype,
    res, step, holds, calm, misuses>>

rvars ==
  <<strong, weak, dataDrops, freed, aborted, sh, wh, rpc, reg, rres>>

pvars ==
  <<type_id, data, ref_count, unwrapped, raw, wild, rebuilt, rval>>

gvars ==
  <<guard, gpc, asked, local, updates>>

avars ==
  <<head, tail, t_tail, next, len, vec_state, vpc, vitem, made, owner, popped>>

hvars ==
  <<buckets, bucket_state, ref_locked, map_len, hpc, hkey, hcur, hhead, it_idx,
    it_cur, inserts, gone, want, ncalls>>

fvars ==
  <<farg, filler>>

cvars ==
  <<vref_count, vh, vfreed, vgone, seen>>

kvars ==
  <<rl_state, rl_locked, rlpc, hguard, hret, hvict, snap>>

\* what the methods of Mutex leave alone
offMutex ==
  <<rvars, pvars, gvars, avars, hvars, fvars, cvars, kvars>>

\* what the reference counting of AnyRef and WeakAnyRef leaves alone
offRef ==
  <<mvars, pvars, gvars, avars, hvars, fvars, cvars, kvars>>

vars ==
  <<state, locked, wake_deadlock, parking_e, parking_g, token, pc, op, wtype,
    res, step, holds, calm, misuses,
    strong, weak, dataDrops, freed, aborted, sh, wh, rpc, reg, rres,
    type_id, data, ref_count, unwrapped, raw, wild, rebuilt, rval,
    guard, gpc, asked, local, updates,
    head, tail, t_tail, next, len, vec_state, vpc, vitem, made, owner, popped,
    buckets, bucket_state, ref_locked, map_len, hpc, hkey, hcur, hhead, it_idx,
    it_cur, inserts, gone, want, ncalls,
    farg, filler,
    vref_count, vh, vfreed, vgone, seen,
    rl_state, rl_locked, rlpc, hguard, hret, hvict, snap>>

\* the vec state of atomic_vec.rs
AVAILABLE ==
  TRUE

UPDATING ==
  FALSE

Items ==
  1 .. MaxItems

\* AtomicVec::new; the threads hold clones of it
VecInit ==
  /\ head = 0
  /\ tail = 0
  /\ t_tail = 0
  /\ next = [i \in Items |-> 0]
  /\ len = 0
  /\ vec_state = AVAILABLE
  /\ vpc = [t \in Threads |-> "idle"]
  /\ vitem = [t \in Threads |-> 0]
  /\ made = 0
  /\ owner = [i \in Items |-> 0]
  /\ popped = <<>>
  /\ vref_count = NThreads
  /\ vh = [t \in Threads |-> 1]
  /\ vfreed = <<>>
  /\ vgone = 0
  /\ seen = [t \in Threads |-> {}]

\* the map state of atomic_hashmap.rs
BUCKET_AVAILABLE ==
  TRUE

BUCKET_UPDATING ==
  FALSE

Keys ==
  1 .. MaxKeys

Buckets ==
  0 .. NBuckets - 1

\* no value guard
NoGuard ==
  [kind |-> "none", key |-> 0]

\* no call runs alone
NoSnap ==
  [op |-> "none", key |-> 0, by |-> 0, view |-> <<>>, len |-> 0]

\* Bucket::new: `ref_locked: Mutex::new()`; nothing asked of the map yet
GuardsInit ==
  /\ rl_state = [b \in Buckets |-> UNLOCKED]
  /\ rl_locked = [b \in Buckets |-> 0]
  /\ rlpc = [t \in Threads |-> "idle"]
  /\ hguard = [t \in Threads |-> NoGuard]
  /\ hret = [t \in Threads |-> [some |-> FALSE, val |-> 0]]
  /\ hvict = [t \in Threads |-> {}]
  /\ snap = NoSnap

\* AtomicHashMap::with_capacity(NBuckets); the threads hold clones of it
MapInit ==
  /\ buckets = [b \in Buckets |-> <<>>]
  /\ bucket_state = [b \in Buckets |-> BUCKET_AVAILABLE]
  /\ ref_locked = [b \in Buckets |-> 0]
  /\ map_len = 0
  /\ hpc = [t \in Threads |-> "idle"]
  /\ hkey = [t \in Threads |-> 0]
  /\ hcur = [t \in Threads |-> 0]
  /\ it_idx = [t \in Threads |-> 0]
  /\ it_cur = [t \in Threads |-> 0]
  /\ hhead = [t \in Threads |-> <<>>]
  /\ inserts = [k \in Keys |-> 0]
  /\ gone = [k \in Keys |-> FALSE]
  /\ want = [k \in Keys |-> 0]
  /\ ncalls = [t \in Threads |-> 0]
  /\ GuardsInit

\* AnyRef::new: strong = 1, weak = 1 (the implicit unit), one handle, owned by thread 1
RefInit ==
  /\ strong = 1
  /\ weak = 1
  /\ dataDrops = 0
  /\ freed = FALSE
  /\ aborted = FALSE
  /\ sh = [t \in Threads |-> IF t = 1 THEN 1 ELSE 0]
  /\ wh = [t \in Threads |-> 0]
  /\ rpc = [t \in Threads |-> "idle"]
  /\ reg = [t \in Threads |-> 0]
  /\ rres = [t \in Threads |-> FALSE]

\* Option<T>: None and Some(v)
None ==
  [some |-> FALSE, val |-> 0]

Some(v) ==
  [some |-> TRUE, val |-> v]

\* the concrete types a cell is built with or asked for (TypeId::of::<T>())
Types ==
  {"i32", "String"}

\* the payload values
Values ==
  0 .. MaxValue

\* AnyRefInner::from_box(Box<T>) for a value v of type ty; the lock is Mutex::new()
PayloadInit(ty, v) ==
  /\ type_id = ty
  /\ data = v
  /\ ref_count = 1
  /\ unwrapped = [t \in Threads |-> FALSE]
  /\ raw = [t \in Threads |-> 0]
  /\ wild = 0
  /\ rebuilt = 0
  /\ rval = [t \in Threads |-> None]
  /\ farg = [t \in Threads |-> [ty |-> ty, val |-> v, was |-> ty, old |-> v]]
  /\ filler = 0

\* no WatchGuardMut exists yet
GuardInit ==
  /\ guard = [t \in Threads |-> FALSE]
  /\ gpc = [t \in Threads |-> "idle"]
  /\ asked = [t \in Threads |-> "i32"]
  /\ local = [t \in Threads |-> 0]
  /\ updates = 0

\* Mutex::new
MutexInitOf(T) ==
  /\ state = UNLOCKED
  /\ locked = 0
  /\ wake_deadlock = UNLOCKED
  /\ parking_e = <<>>
  /\ parking_g = <<>>
  /\ token = [t \in T |-> FALSE]
  /\ pc = [t \in T |-> "idle"]
  /\ op = [t \in T |-> "none"]
  /\ wtype = [t \in T |-> Exclusive]
  /\ res = [t \in T |-> FALSE]
  /\ step = [t \in T |-> 0]
  /\ holds = [t \in T |-> "none"]
  /\ calm = [t \in T |-> FALSE]
  /\ misuses = 0

\* Mutex::new, used by the threads of Threads
MutexInit ==
  MutexInitOf(Threads)

\* a Mutex, and a cell made by AnyRef::new(0i32)
Init ==
  /\ RefInit
  /\ PayloadInit("i32", 0)
  /\ GuardInit
  /\ MutexInit
  /\ VecInit
  /\ MapInit

\* a cell made by AnyRef::new(v) for any value v of any type
InitCell ==
  /\ RefInit
  /\ \E ty \in Types, v \in Values : PayloadInit(ty, v)
  /\ GuardInit
  /\ MutexInit
  /\ VecInit
  /\ MapInit

\* ----------------------------------------------------------- pure helpers
\* AtomicUsize::fetch_add / fetch_sub wrap around
WrapAdd(n, d) ==
  (n + d) % Modulus

WrapSub(n, d) ==
  (n - d + Modulus) % Modulus

\* Backoff::is_completed
IsCompleted(s) ==
  s > YIELD_LIMIT

\* Backoff::snooze : the new value of step
Snooze(s) ==
  IF s <= YIELD_LIMIT THEN s + 1 ELSE s

\* the parking container of a MutexType
Parking(ty) ==
  IF ty = Exclusive THEN parking_e ELSE parking_g


\* a slip: a plain store where a compare_exchange is needed
CasAlwaysOk(cur, expected) ==
  TRUE

\* compare_exchange(expected, _) succeeds iff the current value is the expected one
CasOk(cur, expected) ==
  cur = expected

\* the loop head a thread goes back to after snooze or suspend
SpinPc(t) ==
  IF op[t] = "lock_exclusive" THEN "le_spin" ELSE "lg_spin"

\* MutexType passed to suspend by the running lock call
SuspendType(t) ==
  IF op[t] = "lock_exclusive" THEN Exclusive ELSE Group

\* lock_exclusive: `match self.spin(10)` (arms DIRTY and _)
ExclusiveBranch(s) ==
  IF s = DIRTY THEN "le_load" ELSE "le_cas"

\* a slip of lock_group: no LOCKED_GROUP arm, a joiner waits for UNLOCKED or DIRTY
GroupBranchNoJoin(s) ==
  IF s = DIRTY THEN "lg_dcas" ELSE "lg_cas"

\* lock_group: `match self.spin(10)` (arms DIRTY, LOCKED_GROUP and _)
GroupBranch(s) ==
  CASE s = DIRTY -> "lg_dcas"
    [] s = LOCKED_GROUP -> "lg_recheck"
    [] OTHER -> "lg_cas"

\* unlock_group: the state check that guards the panic
UnlockGroupAllowed(s) ==
  s = LOCKED_GROUP \/ s = DIRTY

\* a slip of unlock_exclusive: release whatever is locked (a swap, not a compare_exchange)
UnlockExclusiveOkAnyLocked(s) ==
  s # UNLOCKED

\* unlock_exclusive: compare_exchange(LOCKED, UNLOCKED, ..).is_ok()
UnlockExclusiveOk(s) ==
  CasOk(s, LOCKED)

\* try_lock_exclusive: the value its compare_exchange expects, from the counter read
TryLockExpected(l) ==
  IF l = 0 THEN DIRTY ELSE UNLOCKED

\* the tail of both lock loops: `if backoff.is_completed() { suspend } else { snooze }`
Backoff(t) ==
  IF IsCompleted(step[t])
    THEN /\ pc' = [pc EXCEPT ![t] = "su_cas"]
         /\ wtype' = [wtype EXCEPT ![t] = SuspendType(t)]
         /\ UNCHANGED step
    ELSE /\ pc' = [pc EXCEPT ![t] = SpinPc(t)]
         /\ step' = [step EXCEPT ![t] = Snooze(step[t])]
         /\ UNCHANGED wtype

\* a call returns to its caller
Return(t) ==
  /\ pc' = [pc EXCEPT ![t] = "idle"]
  /\ op' = [op EXCEPT ![t] = "none"]
  /\ step' = [step EXCEPT ![t] = 0]
  /\ res' = [res EXCEPT ![t] = FALSE]

\* calm[t]: thread t is inside a call and no other thread has stepped since it began
Calm(t) ==
  calm' = [u \in DOMAIN calm |->
             IF u = t THEN pc'[t] # "idle" /\ (pc[t] = "idle" \/ calm[t])
             ELSE FALSE]

\* ------------------------------------------------------------ the callers
CallLockExclusive(t) ==
  /\ pc[t] = "idle" /\ holds[t] = "none"
  /\ pc' = [pc EXCEPT ![t] = "le_spin"]
  /\ op' = [op EXCEPT ![t] = "lock_exclusive"]
  /\ step' = [step EXCEPT ![t] = 0]
  /\ UNCHANGED <<state, locked, wake_deadlock, parking_e, parking_g, token,
                 wtype, res, holds, misuses>>
  /\ Calm(t) /\ UNCHANGED offMutex

CallLockGroup(t) ==
  /\ pc[t] = "idle" /\ holds[t] = "none"
  /\ pc' = [pc EXCEPT ![t] = "lg_add"]
  /\ op' = [op EXCEPT ![t] = "lock_group"]
  /\ step' = [step EXCEPT ![t] = 0]
  /\ UNCHANGED <<state, locked, wake_deadlock, parking_e, parking_g, token,
                 wtype, res, holds, misuses>>
  /\ Calm(t) /\ UNCHANGED offMutex

CallTryLockExclusive(t) ==
  /\ pc[t] = "idle" /\ holds[t] = "none"
  /\ pc' = [pc EXCEPT ![t] = "tl_load"]
  /\ op' = [op EXCEPT ![t] = "try_lock_exclusive"]
  /\ UNCHANGED <<state, locked, wake_deadlock, parking_e, parking_g, token,
                 wtype, res, step, holds, misuses>>
  /\ Calm(t) /\ UNCHANGED offMutex

\* the exclusive critical section ends with the call of unlock_exclusive
CallUnlockExclusive(t) ==
  /\ pc[t] = "idle" /\ holds[t] = "excl"
  /\ pc' = [pc EXCEPT ![t] = "ue_cas"]
  /\ op' = [op EXCEPT ![t] = "unlock_exclusive"]
  /\ holds' = [holds EXCEPT ![t] = "none"]
  /\ UNCHANGED <<state, locked, wake_deadlock, parking_e, parking_g, token,
                 wtype, res, step, misuses>>
  /\ Calm(t) /\ UNCHANGED offMutex

CallUnlockGroup(t) ==
  /\ pc[t] = "idle" /\ holds[t] = "group"
  /\ pc' = [pc EXCEPT ![t] = "ug_load"]
  /\ op' = [op EXCEPT ![t] = "unlock_group"]
  /\ holds' = [holds EXCEPT ![t] = "none"]
  /\ UNCHANGED <<state, locked, wake_deadlock, parking_e, parking_g, token,
                 wtype, res, step, misuses>>
  /\ Calm(t) /\ UNCHANGED offMutex

\* ------------------------------------------------------- lock_exclusive
\* self.spin(10): the load that ends the spin, and the match on its value
LockExclusiveSpin(t) ==
  /\ pc[t] = "le_spin"
  /\ pc' = [pc EXCEPT ![t] = ExclusiveBranch(state)]
  /\ UNCHANGED <<state, locked, wake_deadlock, parking_e, parking_g, token,
                 op, wtype, res, step, holds, misuses>>
  /\ Calm(t) /\ UNCHANGED offMutex

\* DIRTY arm: `if inner.locked.load(Acquire) == 0`
LockExclusiveLoad(t) ==
  /\ pc[t] = "le_load"
  /\ IF locked = 0
       THEN pc' = [pc EXCEPT ![t] = "le_dcas"] /\ UNCHANGED <<wtype, step>>
       ELSE Backoff(t)
  /\ UNCHANGED <<state, locked, wake_deadlock, parking_e, parking_g, token,
                 op, res, holds, misuses>>
  /\ Calm(t) /\ UNCHANGED offMutex

\* the compare_exchange of either arm: DIRTY -> LOCKED or UNLOCKED -> LOCKED
LockExclusiveCas(t) ==
  /\ pc[t] \in {"le_dcas", "le_cas"}
  /\ LET expected == IF pc[t] = "le_dcas" THEN DIRTY ELSE UNLOCKED IN
     IF CasOk(state, expected)
       THEN /\ state' = LOCKED
            /\ Return(t)
            /\ holds' = [holds EXCEPT ![t] = "excl"]
            /\ UNCHANGED wtype
       ELSE /\ Backoff(t)
            /\ UNCHANGED <<state, op, res, holds>>
  /\ UNCHANGED <<locked, wake_deadlock, parking_e, parking_g, token, misuses>>
  /\ Calm(t) /\ UNCHANGED offMutex

\* ------------------------------------------------------------- suspend
\* the compare_exchange on wake_deadlock; on failure suspend returns at once
SuspendCas(t) ==
  /\ pc[t] = "su_cas"
  /\ IF CasOk(wake_deadlock, UNLOCKED)
       THEN /\ wake_deadlock' = LOCKED
            /\ pc' = [pc EXCEPT ![t] = "su_push"]
       ELSE /\ pc' = [pc EXCEPT ![t] = SpinPc(t)]
            /\ UNCHANGED wake_deadlock
  /\ UNCHANGED <<state, locked, parking_e, parking_g, token, op, wtype, res,
                 step, holds, misuses>>
  /\ Calm(t) /\ UNCHANGED offMutex

\* parking.push(thread::current())
SuspendPush(t) ==
  /\ pc[t] = "su_push"
  /\ IF wtype[t] = Exclusive
       THEN parking_e' = Append(parking_e, t) /\ UNCHANGED parking_g
       ELSE parking_g' = Append(parking_g, t) /\ UNCHANGED parking_e
  /\ pc' = [pc EXCEPT ![t] = "su_rel"]
  /\ UNCHANGED <<state, locked, wake_deadlock, token, op, wtype, res, step,
                 holds, misuses>>
  /\ Calm(t) /\ UNCHANGED offMutex

\* wake_deadlock.store(UNLOCKED, Release)
SuspendRelease(t) ==
  /\ pc[t] = "su_rel"
  /\ wake_deadlock' = UNLOCKED
  /\ pc' = [pc EXCEPT ![t] = "su_park"]
  /\ UNCHANGED <<state, locked, parking_e, parking_g, token, op, wtype, res,
                 step, holds, misuses>>
  /\ Calm(t) /\ UNCHANGED offMutex

\* thread::park(): blocks until the thread's token is set, and consumes it
SuspendPark(t) ==
  /\ pc[t] = "su_park"
  /\ token[t]
  /\ token' = [token EXCEPT ![t] = FALSE]
  /\ pc' = [pc EXCEPT ![t] = SpinPc(t)]
  /\ UNCHANGED <<state, locked, wake_deadlock, parking_e, parking_g, op, wtype,
                 res, step, holds, misuses>>
  /\ Calm(t) /\ UNCHANGED offMutex

\* ---------------------------------------------------------------- wake
\* AtomicVec::pop on the container of MutexType ty, followed by Thread::unpark
\* of the popped handle: the queues and tokens after it
PopUnpark(ty) ==
  /\ IF ty = Exclusive
       THEN parking_e' = Tail(parking_e) /\ UNCHANGED parking_g
       ELSE parking_g' = Tail(parking_g) /\ UNCHANGED parking_e
  /\ token' = [token EXCEPT ![Head(Parking(ty))] = TRUE]

\* a slip: both release calls wake an exclusive waiter first
FirstWakeExclusive(o) ==
  Exclusive

\* unlock_group / unlock_exclusive: `if !self.wake(first) { self.wake(second) }`
FirstWake(o) ==
  IF o = "unlock_group" THEN Exclusive ELSE Group

SecondWake(o) ==
  IF o = "unlock_group" THEN Group ELSE Exclusive

\* the spin on wake_deadlock at the head of wake
WakeCas(t) ==
  /\ pc[t] = "wk_cas"
  /\ CasOk(wake_deadlock, UNLOCKED)
  /\ wake_deadlock' = LOCKED
  /\ pc' = [pc EXCEPT ![t] = "wk_pop"]
  /\ UNCHANGED <<state, locked, parking_e, parking_g, token, op, wtype, res,
                 step, holds, misuses>>
  /\ Calm(t) /\ UNCHANGED offMutex

\* `let res = if let Some(thread) = parking.pop() { thread.unpark(); true } else { false }`
WakePop(t) ==
  /\ pc[t] = "wk_pop"
  /\ IF Parking(wtype[t]) # <<>>
       THEN PopUnpark(wtype[t]) /\ res' = [res EXCEPT ![t] = TRUE]
       ELSE res' = [res EXCEPT ![t] = FALSE]
            /\ UNCHANGED <<parking_e, parking_g, token>>
  /\ pc' = [pc EXCEPT ![t] = "wk_rel"]
  /\ UNCHANGED <<state, locked, wake_deadlock, op, wtype, step, holds, misuses>>
  /\ Calm(t) /\ UNCHANGED offMutex

\* wake_deadlock.store(UNLOCKED), and what the caller of wake does with res
WakeRelease(t) ==
  /\ pc[t] = "wk_rel"
  /\ wake_deadlock' = UNLOCKED
  /\ CASE op[t] = "lock_group" ->
            \* LOCKED_GROUP arm of lock_group: break, the group lock is held
            /\ Return(t)
            /\ holds' = [holds EXCEPT ![t] = "group"]
            /\ UNCHANGED wtype
       [] op[t] # "lock_group" /\ wtype[t] = FirstWake(op[t]) /\ ~res[t] ->
            /\ pc' = [pc EXCEPT ![t] = "wk_cas"]
            /\ wtype' = [wtype EXCEPT ![t] = SecondWake(op[t])]
            /\ UNCHANGED <<op, res, step, holds>>
       [] OTHER ->
            /\ Return(t)
            /\ UNCHANGED <<wtype, holds>>
  /\ UNCHANGED <<state, locked, parking_e, parking_g, token, misuses>>
  /\ Calm(t) /\ UNCHANGED offMutex

\* ------------------------------------------------------------ wake_all
WakeAllCas(t) ==
  /\ pc[t] = "wa_cas"
  /\ CasOk(wake_deadlock, UNLOCKED)
  /\ wake_deadlock' = LOCKED
  /\ pc' = [pc EXCEPT ![t] = "wa_pop"]
  /\ UNCHANGED <<state, locked, parking_e, parking_g, token, op, wtype, res,
                 step, holds, misuses>>
  /\ Calm(t) /\ UNCHANGED offMutex

\* `if let Some(thread) = parking.pop() { thread.unpark(); ...`
WakeAllPop(t) ==
  /\ pc[t] = "wa_pop"
  /\ IF Parking(wtype[t]) # <<>>
       THEN PopUnpark(wtype[t]) /\ pc' = [pc EXCEPT ![t] = "wa_pre"]
       ELSE pc' = [pc EXCEPT ![t] = "wa_rel"]
            /\ UNCHANGED <<parking_e, parking_g, token>>
  /\ UNCHANGED <<state, locked, wake_deadlock, op, wtype, res, step, holds,
                 misuses>>
  /\ Calm(t) /\ UNCHANGED offMutex

\* "pre-release to improve performances": the store inside the if
WakeAllPreRelease(t) ==
  /\ pc[t] = "wa_pre"
  /\ wake_deadlock' = UNLOCKED
  /\ pc' = [pc EXCEPT ![t] = "wa_loop"]
  /\ UNCHANGED <<state, locked, parking_e, parking_g, token, op, wtype, res,
                 step, holds, misuses>>
  /\ Calm(t) /\ UNCHANGED offMutex

\* `while let Some(thread) = parking.pop() { thread.unpark(); }`
WakeAllLoop(t) ==
  /\ pc[t] = "wa_loop"
  /\ IF Parking(wtype[t]) # <<>>
       THEN PopUnpark(wtype[t]) /\ UNCHANGED pc
       ELSE pc' = [pc EXCEPT ![t] = "wa_rel"]
            /\ UNCHANGED <<parking_e, parking_g, token>>
  /\ UNCHANGED <<state, locked, wake_deadlock, op, wtype, res, step, holds,
                 misuses>>
  /\ Calm(t) /\ UNCHANGED offMutex

\* the final wake_deadlock.store(UNLOCKED); lock_group then breaks: the lock is held
WakeAllRelease(t) ==
  /\ pc[t] = "wa_rel"
  /\ wake_deadlock' = UNLOCKED
  /\ Return(t)
  /\ holds' = [holds EXCEPT ![t] = "group"]
  /\ UNCHANGED <<state, locked, parking_e, parking_g, token, wtype, misuses>>
  /\ Calm(t) /\ UNCHANGED offMutex

\* ---------------------------------------------------------- lock_group
\* inner.locked.fetch_add(1, Release)
LockGroupAdd(t) ==
  /\ pc[t] = "lg_add"
  /\ locked' = WrapAdd(locked, 1)
  /\ pc' = [pc EXCEPT ![t] = "lg_spin"]
  /\ UNCHANGED <<state, wake_deadlock, parking_e, parking_g, token, op, wtype,
                 res, step, holds, misuses>>
  /\ Calm(t) /\ UNCHANGED offMutex

\* self.spin(10): the load that ends the spin, and the match on its value
LockGroupSpin(t) ==
  /\ pc[t] = "lg_spin"
  /\ pc' = [pc EXCEPT ![t] = GroupBranch(state)]
  /\ UNCHANGED <<state, locked, wake_deadlock, parking_e, parking_g, token,
                 op, wtype, res, step, holds, misuses>>
  /\ Calm(t) /\ UNCHANGED offMutex

\* the compare_exchange of the DIRTY and _ arms, to LOCKED_GROUP; then wake_all(Group)
LockGroupCas(t) ==
  /\ pc[t] \in {"lg_dcas", "lg_cas"}
  /\ LET expected == IF pc[t] = "lg_dcas" THEN DIRTY ELSE UNLOCKED IN
     IF CasOk(state, expected)
       THEN /\ state' = LOCKED_GROUP
            /\ pc' = [pc EXCEPT ![t] = "wa_cas"]
            /\ wtype' = [wtype EXCEPT ![t] = Group]
            /\ UNCHANGED step
       ELSE /\ Backoff(t)
            /\ UNCHANGED state
  /\ UNCHANGED <<locked, wake_deadlock, parking_e, parking_g, token, op, res,
                 holds, misuses>>
  /\ Calm(t) /\ UNCHANGED offMutex

\* LOCKED_GROUP arm: `if inner.state.load(Acquire) == LOCKED_GROUP { wake(Group) }; break`
LockGroupRecheck(t) ==
  /\ pc[t] = "lg_recheck"
  /\ IF state = LOCKED_GROUP
       THEN /\ pc' = [pc EXCEPT ![t] = "wk_cas"]
            /\ wtype' = [wtype EXCEPT ![t] = Group]
            /\ UNCHANGED <<op, res, step, holds>>
       ELSE /\ Return(t)
            /\ holds' = [holds EXCEPT ![t] = "group"]
            /\ UNCHANGED wtype
  /\ UNCHANGED <<state, locked, wake_deadlock, parking_e, parking_g, token,
                 misuses>>
  /\ Calm(t) /\ UNCHANGED offMutex

\* -------------------------------------------------------- unlock_group
\* the load of state and the panic check
UnlockGroupLoad(t) ==
  /\ pc[t] = "ug_load"
  /\ IF UnlockGroupAllowed(state)
       THEN pc' = [pc EXCEPT ![t] = "ug_sub"]
       ELSE pc' = [pc EXCEPT ![t] = "panicked"]
  /\ UNCHANGED <<state, locked, wake_deadlock, parking_e, parking_g, token,
                 op, wtype, res, step, holds, misuses>>
  /\ Calm(t) /\ UNCHANGED offMutex

\* `if inner.locked.fetch_sub(1, Release) == 1`
UnlockGroupSub(t) ==
  /\ pc[t] = "ug_sub"
  /\ locked' = WrapSub(locked, 1)
  /\ IF locked = 1
       THEN pc' = [pc EXCEPT ![t] = "ug_store"] /\ UNCHANGED <<op, res, step>>
       ELSE Return(t)
  /\ UNCHANGED <<state, wake_deadlock, parking_e, parking_g, token, wtype,
                 holds, misuses>>
  /\ Calm(t) /\ UNCHANGED offMutex

\* inner.state.store(DIRTY, Release); then wake(Exclusive)
UnlockGroupStore(t) ==
  /\ pc[t] = "ug_store"
  /\ state' = DIRTY
  /\ pc' = [pc EXCEPT ![t] = "wk_cas"]
  /\ wtype' = [wtype EXCEPT ![t] = FirstWake(op[t])]
  /\ UNCHANGED <<locked, wake_deadlock, parking_e, parking_g, token, op, res,
                 step, holds, misuses>>
  /\ Calm(t) /\ UNCHANGED offMutex

\* ---------------------------------------------------- unlock_exclusive
\* compare_exchange(LOCKED, UNLOCKED) or panic; then wake(Group)
UnlockExclusiveCas(t) ==
  /\ pc[t] = "ue_cas"
  /\ IF UnlockExclusiveOk(state)
       THEN /\ state' = UNLOCKED
            /\ pc' = [pc EXCEPT ![t] = "wk_cas"]
            /\ wtype' = [wtype EXCEPT ![t] = FirstWake(op[t])]
       ELSE /\ pc' = [pc EXCEPT ![t] = "panicked"]
            /\ UNCHANGED <<state, wtype>>
  /\ UNCHANGED <<locked, wake_deadlock, parking_e, parking_g, token, op, res,
                 step, holds, misuses>>
  /\ Calm(t) /\ UNCHANGED offMutex

\* --------------------------------------------------- try_lock_exclusive
\* `if self.inner().locked.load(Acquire) == 0`
TryLockLoad(t) ==
  /\ pc[t] = "tl_load"
  /\ pc' = [pc EXCEPT ![t] = IF TryLockExpected(locked) = DIRTY THEN "tl_dcas" ELSE "tl_cas"]
  /\ UNCHANGED <<state, locked, wake_deadlock, parking_e, parking_g, token,
                 op, wtype, res, step, holds, misuses>>
  /\ Calm(t) /\ UNCHANGED offMutex

\* compare_exchange(DIRTY, LOCKED) or compare_exchange(UNLOCKED, LOCKED); .is_ok()
TryLockCas(t) ==
  /\ pc[t] \in {"tl_dcas", "tl_cas"}
  /\ LET expected == IF pc[t] = "tl_dcas" THEN DIRTY ELSE UNLOCKED IN
     IF CasOk(state, expected)
       THEN state' = LOCKED /\ res' = [res EXCEPT ![t] = TRUE]
       ELSE res' = [res EXCEPT ![t] = FALSE] /\ UNCHANGED state
  /\ pc' = [pc EXCEPT ![t] = "tl_ret"]
  /\ UNCHANGED <<locked, wake_deadlock, parking_e, parking_g, token, op, wtype,
                 step, holds, misuses>>
  /\ Calm(t) /\ UNCHANGED offMutex

\* the caller receives the boolean; true makes it the exclusive holder
TryLockReturn(t) ==
  /\ pc[t] = "tl_ret"
  /\ holds' = [holds EXCEPT ![t] = IF res[t] THEN "excl" ELSE holds[t]]
  /\ Return(t)
  /\ UNCHANGED <<state, locked, wake_deadlock, parking_e, parking_g, token,
                 wtype, misuses>>
  /\ Calm(t) /\ UNCHANGED offMutex

\* ------------------------------------------------ panics and misuse
\* the panic unwinds to the caller (std::panic::catch_unwind in the tests)
CatchUnwind(t) ==
  /\ pc[t] = "panicked"
  /\ Return(t)
  /\ UNCHANGED <<state, locked, wake_deadlock, parking_e, parking_g, token,
                 wtype, holds, misuses>>
  /\ Calm(t) /\ UNCHANGED offMutex

\* unlock_exclusive called by a thread that is not the exclusive holder
MisuseUnlockExclusive(t) ==
  /\ pc[t] = "idle" /\ holds[t] # "excl"
  /\ misuses < MaxMisuse
  /\ misuses' = misuses + 1
  /\ pc' = [pc EXCEPT ![t] = "ue_cas"]
  /\ op' = [op EXCEPT ![t] = "unlock_exclusive"]
  /\ UNCHANGED <<state, locked, wake_deadlock, parking_e, parking_g, token,
                 wtype, res, step, holds>>
  /\ Calm(t) /\ UNCHANGED offMutex

\* unlock_group called by a thread that is not a group holder
MisuseUnlockGroup(t) ==
  /\ pc[t] = "idle" /\ holds[t] # "group"
  /\ misuses < MaxMisuse
  /\ misuses' = misuses + 1
  /\ pc' = [pc EXCEPT ![t] = "ug_load"]
  /\ op' = [op EXCEPT ![t] = "unlock_group"]
  /\ UNCHANGED <<state, locked, wake_deadlock, parking_e, parking_g, token,
                 wtype, res, step, holds>>
  /\ Calm(t) /\ UNCHANGED offMutex

\* --------------------------------------------------- specifications
\* one step of thread t in a program whose threads unlock only what they hold
Step(t) ==
  \/ CallLockExclusive(t)
  \/ CallLockGroup(t)
  \/ CallTryLockExclusive(t)
  \/ CallUnlockExclusive(t)
  \/ CallUnlockGroup(t)
  \/ LockExclusiveSpin(t)
  \/ LockExclusiveLoad(t)
  \/ LockExclusiveCas(t)
  \/ SuspendCas(t)
  \/ SuspendPush(t)
  \/ SuspendRelease(t)
  \/ SuspendPark(t)
  \/ WakeCas(t)
  \/ WakePop(t)
  \/ WakeRelease(t)
  \/ WakeAllCas(t)
  \/ WakeAllPop(t)
  \/ WakeAllPreRelease(t)
  \/ WakeAllLoop(t)
  \/ WakeAllRelease(t)
  \/ LockGroupAdd(t)
  \/ LockGroupSpin(t)
  \/ LockGroupCas(t)
  \/ LockGroupRecheck(t)
  \/ UnlockGroupLoad(t)
  \/ UnlockGroupSub(t)
  \/ UnlockGroupStore(t)
  \/ UnlockExclusiveCas(t)
  \/ TryLockLoad(t)
  \/ TryLockCas(t)
  \/ TryLockReturn(t)
  \/ CatchUnwind(t)

Next ==
  \E t \in Threads : Step(t)

Spec ==
  Init /\ [][Next]_vars

\* a program of one more thread, with a fixed part for each thread: the first and
\* the last thread take the lock in exclusive mode, the others in group mode
Trio ==
  1 .. NThreads + 1

ExclusiveUser(t) ==
  \/ CallLockExclusive(t)
  \/ CallUnlockExclusive(t)
  \/ LockExclusiveSpin(t)
  \/ LockExclusiveLoad(t)
  \/ LockExclusiveCas(t)
  \/ UnlockExclusiveCas(t)

GroupUser(t) ==
  \/ CallLockGroup(t)
  \/ CallUnlockGroup(t)
  \/ LockGroupAdd(t)
  \/ LockGroupSpin(t)
  \/ LockGroupCas(t)
  \/ LockGroupRecheck(t)
  \/ WakeAllCas(t)
  \/ WakeAllPop(t)
  \/ WakeAllPreRelease(t)
  \/ WakeAllLoop(t)
  \/ WakeAllRelease(t)
  \/ UnlockGroupLoad(t)
  \/ UnlockGroupSub(t)
  \/ UnlockGroupStore(t)

AnyUser(t) ==
  \/ SuspendCas(t)
  \/ SuspendPush(t)
  \/ SuspendRelease(t)
  \/ SuspendPark(t)
  \/ WakeCas(t)
  \/ WakePop(t)
  \/ WakeRelease(t)

NextTrio ==
  \E t \in Trio :
    \/ AnyUser(t)
    \/ t \in {1, NThreads + 1} /\ ExclusiveUser(t)
    \/ t \notin {1, NThreads + 1} /\ GroupUser(t)

InitTrio ==
  /\ RefInit
  /\ PayloadInit("i32", 0)
  /\ GuardInit
  /\ MutexInitOf(Trio)
  /\ VecInit
  /\ MapInit

SpecTrio ==
  InitTrio /\ [][NextTrio]_vars

\* the same three threads with the parts exchanged: the first thread takes the
\* mutex in exclusive mode, the others keep taking it in group mode; the
\* scheduler lets every thread that can take a step take one eventually
StarveStep(t) ==
  \/ AnyUser(t)
  \/ t = 1 /\ ExclusiveUser(t)
  \/ t # 1 /\ GroupUser(t)

NextStarve ==
  \E t \in Trio : StarveStep(t)

SpecStarve ==
  InitTrio /\ [][NextStarve]_vars /\ \A t \in Trio : WF_vars(StarveStep(t))

\* the same program with threads that may also unlock what they do not hold
MisuseStep(t) ==
  \/ MisuseUnlockExclusive(t)
  \/ MisuseUnlockGroup(t)

NextMisuse ==
  \E t \in Threads : Step(t) \/ MisuseStep(t)

SpecMisuse ==
  Init /\ [][NextMisuse]_vars

\* ================================================= AnyRef / WeakAnyRef
RECURSIVE SumTo(_, _)
SumTo(f, n) ==
  IF n = 0 THEN 0 ELSE f[n] + SumTo(f, n - 1)

\* number of live AnyRef handles / WeakAnyRef handles over all threads
StrongHandles ==
  SumTo(sh, NThreads)

WeakHandles ==
  SumTo(wh, NThreads)

\* a slip of Clone: the handle is copied without counting it
StrongAfterCloneUncounted(n) ==
  n

\* Clone for AnyRef: strong.fetch_add(1, Relaxed)
StrongAfterClone(n) ==
  WrapAdd(n, 1)

\* a slip of weak_count: the locked sentinel is not recognised
WeakCountNoSentinel(cnt) ==
  cnt - 1

\* AnyRef::weak_count: `if cnt == usize::MAX { 0 } else { cnt - 1 }`
WeakCount(cnt) ==
  IF cnt = USIZE_MAX THEN 0 ELSE cnt - 1

\* a slip of upgrade: a plain fetch_add, which also counts up from zero
IncrementAlways(n) ==
  TRUE

\* WeakAnyRef::upgrade: checked_increment(n) is Some unless n == 0
IncrementAllowed(n) ==
  n # 0

\* a slip of Drop for WeakAnyRef: free as soon as one other unit is left
WasLastUnitOrNext(old) ==
  old <= 2

\* Drop for WeakAnyRef: `inner.weak.fetch_sub(1, Release) == 1`
WasLastUnit(old) ==
  old = 1

\* a call on the cell returns
RefReturn(t) ==
  /\ rpc' = [rpc EXCEPT ![t] = "idle"]
  /\ reg' = [reg EXCEPT ![t] = 0]
  /\ rres' = [rres EXCEPT ![t] = FALSE]

\* a handle is moved to another thread (AnyRef and WeakAnyRef are Send)
SendAnyRef(t, u) ==
  /\ rpc[t] = "idle" /\ sh[t] > 0 /\ u # t
  /\ sh' = [sh EXCEPT ![t] = @ - 1, ![u] = @ + 1]
  /\ UNCHANGED <<strong, weak, dataDrops, freed, aborted, wh, rpc, reg, rres>>
  /\ UNCHANGED offRef

SendWeakAnyRef(t, u) ==
  /\ rpc[t] = "idle" /\ wh[t] > 0 /\ u # t
  /\ wh' = [wh EXCEPT ![t] = @ - 1, ![u] = @ + 1]
  /\ UNCHANGED <<strong, weak, dataDrops, freed, aborted, sh, rpc, reg, rres>>
  /\ UNCHANGED offRef

\* Clone for AnyRef: fetch_add, abort if the old value is above MAX_REFCOUNT
AnyRefClone(t) ==
  /\ rpc[t] = "idle" /\ sh[t] > 0
  /\ StrongHandles < MaxCount
  /\ strong' = StrongAfterClone(strong)
  /\ aborted' = (aborted \/ strong > MAX_REFCOUNT)
  /\ sh' = [sh EXCEPT ![t] = @ + 1]
  /\ UNCHANGED <<weak, dataDrops, freed, wh, rpc, reg, rres>>
  /\ UNCHANGED offRef

\* Drop for AnyRef: `self.inner().strong.fetch_sub(1, Release)`; the handle is gone
AnyRefDrop(t) ==
  /\ rpc[t] = "idle" /\ sh[t] > 0
  /\ reg' = [reg EXCEPT ![t] = strong]
  /\ strong' = WrapSub(strong, 1)
  /\ sh' = [sh EXCEPT ![t] = @ - 1]
  /\ rpc' = [rpc EXCEPT ![t] = "ds_check"]
  /\ UNCHANGED <<weak, dataDrops, freed, aborted, wh, rres>>
  /\ UNCHANGED offRef

\* `if ... != 1 { return; }`
AnyRefDropCheck(t) ==
  /\ rpc[t] = "ds_check"
  /\ IF reg[t] # 1
       THEN RefReturn(t)
       ELSE rpc' = [rpc EXCEPT ![t] = "ds_payload"] /\ UNCHANGED <<reg, rres>>
  /\ UNCHANGED <<strong, weak, dataDrops, freed, aborted, sh, wh>>
  /\ UNCHANGED offRef

\* drop_in_place of lock and data; the implicit weak unit `_weak` is dropped next
AnyRefDropPayload(t) ==
  /\ rpc[t] = "ds_payload"
  /\ dataDrops' = dataDrops + 1
  /\ ref_count' = WrapSub(ref_count, 1)
  /\ rpc' = [rpc EXCEPT ![t] = "wd_sub"]
  /\ UNCHANGED <<strong, weak, freed, aborted, sh, wh, reg, rres>>
  /\ UNCHANGED <<type_id, data, unwrapped, raw, wild, rebuilt, rval>>
  /\ UNCHANGED <<mvars, gvars, avars, hvars, fvars, cvars, kvars>>

\* Drop for WeakAnyRef of the implicit unit: weak.fetch_sub(1, Release)
ImplicitWeakDrop(t) ==
  /\ rpc[t] = "wd_sub"
  /\ weak' = WrapSub(weak, 1)
  /\ IF WasLastUnit(weak)
       THEN rpc' = [rpc EXCEPT ![t] = "wd_free"] /\ UNCHANGED <<reg, rres>>
       ELSE RefReturn(t)
  /\ UNCHANGED <<strong, dataDrops, freed, aborted, sh, wh>>
  /\ UNCHANGED offRef

\* Drop for WeakAnyRef of a handle: weak.fetch_sub(1, Release); the handle is gone
WeakAnyRefDrop(t) ==
  /\ rpc[t] = "idle" /\ wh[t] > 0
  /\ weak' = WrapSub(weak, 1)
  /\ wh' = [wh EXCEPT ![t] = @ - 1]
  /\ IF WasLastUnit(weak)
       THEN rpc' = [rpc EXCEPT ![t] = "wd_free"]
       ELSE UNCHANGED rpc
  /\ UNCHANGED <<strong, dataDrops, freed, aborted, sh, reg, rres>>
  /\ UNCHANGED offRef

\* `if inner.weak.fetch_sub(1, Release) == 1 { ... dealloc(ptr, layout) }`
WeakAnyRefDealloc(t) ==
  /\ rpc[t] = "wd_free"
  /\ freed' = TRUE
  /\ RefReturn(t)
  /\ UNCHANGED <<strong, weak, dataDrops, aborted, sh, wh>>
  /\ UNCHANGED offRef

\* Clone for WeakAnyRef: weak.fetch_add(1, Relaxed), abort above MAX_REFCOUNT
WeakAnyRefClone(t) ==
  /\ rpc[t] = "idle" /\ wh[t] > 0
  /\ WeakHandles < MaxCount
  /\ weak' = WrapAdd(weak, 1)
  /\ aborted' = (aborted \/ weak > MAX_REFCOUNT)
  /\ wh' = [wh EXCEPT ![t] = @ + 1]
  /\ UNCHANGED <<strong, dataDrops, freed, sh, rpc, reg, rres>>
  /\ UNCHANGED offRef

\* AnyRef::downgrade: `let mut cur = self.inner().weak.load(Relaxed)`
AnyRefDowngrade(t) ==
  /\ rpc[t] = "idle" /\ sh[t] > 0
  /\ WeakHandles < MaxCount
  /\ reg' = [reg EXCEPT ![t] = weak]
  /\ rpc' = [rpc EXCEPT ![t] = "dg_loop"]
  /\ UNCHANGED <<strong, weak, dataDrops, freed, aborted, sh, wh, rres>>
  /\ UNCHANGED offRef

\* one turn of the loop of downgrade: spin on the sentinel, assert, compare_exchange_weak
AnyRefDowngradeLoop(t) ==
  /\ rpc[t] = "dg_loop"
  /\ CASE reg[t] = USIZE_MAX ->
            /\ reg' = [reg EXCEPT ![t] = weak]
            /\ UNCHANGED <<weak, wh, rpc, rres>>
       [] reg[t] # USIZE_MAX /\ reg[t] > MAX_REFCOUNT ->
            /\ rpc' = [rpc EXCEPT ![t] = "panicked"]
            /\ UNCHANGED <<weak, wh, reg, rres>>
       [] reg[t] <= MAX_REFCOUNT /\ CasOk(weak, reg[t]) ->
            /\ weak' = reg[t] + 1
            /\ wh' = [wh EXCEPT ![t] = @ + 1]
            /\ RefReturn(t)
       [] OTHER ->
            /\ reg' = [reg EXCEPT ![t] = weak]
            /\ UNCHANGED <<weak, wh, rpc, rres>>
  /\ UNCHANGED <<strong, dataDrops, freed, aborted, sh>>
  /\ UNCHANGED offRef

\* where fetch_update goes after reading or re-reading n
UpgradePc(n) ==
  IF IncrementAllowed(n) THEN "up_cas" ELSE "up_none"

\* WeakAnyRef::upgrade: the load that starts strong.fetch_update
WeakAnyRefUpgrade(t) ==
  /\ rpc[t] = "idle" /\ wh[t] > 0
  /\ StrongHandles < MaxCount
  /\ reg' = [reg EXCEPT ![t] = strong]
  /\ rpc' = [rpc EXCEPT ![t] = UpgradePc(strong)]
  /\ UNCHANGED <<strong, weak, dataDrops, freed, aborted, sh, wh, rres>>
  /\ UNCHANGED offRef

\* the compare-and-increment of fetch_update; Some(AnyRef) on success
WeakAnyRefUpgradeCas(t) ==
  /\ rpc[t] = "up_cas"
  /\ IF CasOk(strong, reg[t])
       THEN /\ strong' = WrapAdd(reg[t], 1)
            /\ sh' = [sh EXCEPT ![t] = @ + 1]
            /\ RefReturn(t)
       ELSE /\ reg' = [reg EXCEPT ![t] = strong]
            /\ rpc' = [rpc EXCEPT ![t] = UpgradePc(strong)]
            /\ UNCHANGED <<strong, sh, rres>>
  /\ UNCHANGED <<weak, dataDrops, freed, aborted, wh>>
  /\ UNCHANGED offRef

\* upgrade returns None
WeakAnyRefUpgradeNone(t) ==
  /\ rpc[t] = "up_none"
  /\ RefReturn(t)
  /\ UNCHANGED <<strong, weak, dataDrops, freed, aborted, sh, wh>>
  /\ UNCHANGED offRef

\* AnyRef::is_unique: weak.compare_exchange(1, usize::MAX, Acquire, Relaxed)
AnyRefIsUnique(t) ==
  /\ rpc[t] = "idle" /\ sh[t] > 0
  /\ IF CasOk(weak, 1)
       THEN /\ weak' = USIZE_MAX
            /\ rpc' = [rpc EXCEPT ![t] = "iu_load"]
            /\ UNCHANGED rres
       ELSE /\ rres' = [rres EXCEPT ![t] = FALSE]
            /\ rpc' = [rpc EXCEPT ![t] = "iu_ret"]
            /\ UNCHANGED weak
  /\ UNCHANGED <<strong, dataDrops, freed, aborted, sh, wh, reg>>
  /\ UNCHANGED offRef

\* a slip of is_unique: any live strong count passes for a single handle
IsSoleStrongOrMore(n) ==
  n >= 1

\* `this.inner().strong.load(Acquire) == 1`
IsSoleStrong(n) ==
  n = 1

\* `let unique = this.inner().strong.load(Acquire) == 1`
AnyRefIsUniqueLoad(t) ==
  /\ rpc[t] = "iu_load"
  /\ rres' = [rres EXCEPT ![t] = IsSoleStrong(strong)]
  /\ rpc' = [rpc EXCEPT ![t] = "iu_store"]
  /\ UNCHANGED <<strong, weak, dataDrops, freed, aborted, sh, wh, reg>>
  /\ UNCHANGED offRef

\* `this.inner().weak.store(1, Release)`
AnyRefIsUniqueStore(t) ==
  /\ rpc[t] = "iu_store"
  /\ weak' = 1
  /\ rpc' = [rpc EXCEPT ![t] = "iu_ret"]
  /\ UNCHANGED <<strong, dataDrops, freed, aborted, sh, wh, reg, rres>>
  /\ UNCHANGED offRef

\* is_unique returns rres
AnyRefIsUniqueReturn(t) ==
  /\ rpc[t] = "iu_ret"
  /\ RefReturn(t)
  /\ UNCHANGED <<strong, weak, dataDrops, freed, aborted, sh, wh>>
  /\ UNCHANGED offRef

\* a slip of try_unwrap: the value is taken although other handles share it
TryUnwrapOkShared(n) ==
  n >= 1

\* `strong.compare_exchange(1, 0, Relaxed, Relaxed)` succeeds
TryUnwrapOk(n) ==
  CasOk(n, 1)

\* AnyRef::try_unwrap: strong.compare_exchange(1, 0, Relaxed, Relaxed); Err(this) on failure
AnyRefTryUnwrap(t) ==
  /\ rpc[t] = "idle" /\ sh[t] > 0
  /\ IF TryUnwrapOk(strong)
       THEN /\ strong' = 0
            /\ sh' = [sh EXCEPT ![t] = @ - 1]
            /\ rpc' = [rpc EXCEPT ![t] = "tu_read"]
       ELSE /\ rpc' = [rpc EXCEPT ![t] = "tu_err"]
            /\ UNCHANGED <<strong, sh>>
  /\ UNCHANGED <<weak, dataDrops, freed, aborted, wh, reg, rres>>
  /\ UNCHANGED offRef

\* `return Err(this)`: the caller has its handle back
AnyRefTryUnwrapErr(t) ==
  /\ rpc[t] = "tu_err"
  /\ RefReturn(t)
  /\ UNCHANGED <<strong, weak, dataDrops, freed, aborted, sh, wh>>
  /\ UNCHANGED offRef

\* read_data copies the payload out, then drop_in_place of data and lock; the copy
\* is returned as Ok(elem) and `_weak` is dropped next
AnyRefTryUnwrapRead(t) ==
  /\ rpc[t] = "tu_read"
  /\ dataDrops' = dataDrops + 1
  /\ unwrapped' = [unwrapped EXCEPT ![t] = TRUE]
  /\ ref_count' = WrapSub(ref_count, 1)
  /\ rpc' = [rpc EXCEPT ![t] = "wd_sub"]
  /\ UNCHANGED <<strong, weak, freed, aborted, sh, wh, reg, rres>>
  /\ UNCHANGED <<type_id, data, raw, wild, rebuilt, rval>>
  /\ UNCHANGED <<mvars, gvars, avars, hvars, fvars, cvars, kvars>>

\* the caller of try_unwrap drops the value it received: T's destructor runs on it
DropUnwrapped(t) ==
  /\ rpc[t] = "idle" /\ unwrapped[t]
  /\ dataDrops' = dataDrops + 1
  /\ unwrapped' = [unwrapped EXCEPT ![t] = FALSE]
  /\ UNCHANGED <<strong, weak, freed, aborted, sh, wh, rpc, reg, rres>>
  /\ UNCHANGED <<type_id, data, ref_count, raw, wild, rebuilt, rval>>
  /\ UNCHANGED <<mvars, gvars, avars, hvars, fvars, cvars, kvars>>

RefStep(t) ==
  \/ \E u \in Threads : SendAnyRef(t, u)
  \/ \E u \in Threads : SendWeakAnyRef(t, u)
  \/ AnyRefClone(t)
  \/ AnyRefDrop(t)
  \/ AnyRefDropCheck(t)
  \/ AnyRefDropPayload(t)
  \/ ImplicitWeakDrop(t)
  \/ WeakAnyRefDrop(t)
  \/ WeakAnyRefDealloc(t)
  \/ WeakAnyRefClone(t)
  \/ AnyRefDowngrade(t)
  \/ AnyRefDowngradeLoop(t)
  \/ WeakAnyRefUpgrade(t)
  \/ WeakAnyRefUpgradeCas(t)
  \/ WeakAnyRefUpgradeNone(t)
  \/ AnyRefIsUnique(t)
  \/ AnyRefIsUniqueLoad(t)
  \/ AnyRefIsUniqueStore(t)
  \/ AnyRefIsUniqueReturn(t)
  \/ AnyRefTryUnwrap(t)
  \/ AnyRefTryUnwrapErr(t)
  \/ AnyRefTryUnwrapRead(t)
  \/ DropUnwrapped(t)

NextRef ==
  \E t \in Threads : RefStep(t)

\* the threads' use of one cell
SpecRef ==
  InitCell /\ [][NextRef]_vars

\* ------------------------------------------- clones up to the counter's limit
\* Clone for AnyRef, its two steps: `self.inner().strong.fetch_add(1, Relaxed)`
AnyRefCloneFetchAdd(t) ==
  /\ ~aborted
  /\ rpc[t] = "idle" /\ sh[t] > 0
  /\ reg' = [reg EXCEPT ![t] = strong]
  /\ strong' = StrongAfterClone(strong)
  /\ rpc' = [rpc EXCEPT ![t] = "cl_check"]
  /\ UNCHANGED <<weak, dataDrops, freed, aborted, sh, wh, rres>>
  /\ UNCHANGED offRef

\* `if ... > MAX_REFCOUNT { abort(); }`, else the new handle is returned
AnyRefCloneCheck(t) ==
  /\ ~aborted
  /\ rpc[t] = "cl_check"
  /\ IF reg[t] > MAX_REFCOUNT
       THEN aborted' = TRUE /\ UNCHANGED <<sh, rpc, reg, rres>>
       ELSE /\ sh' = [sh EXCEPT ![t] = @ + 1]
            /\ RefReturn(t)
            /\ UNCHANGED aborted
  /\ UNCHANGED <<strong, weak, dataDrops, freed, wh>>
  /\ UNCHANGED offRef

\* one step of thread t in a program that only clones and hands handles over
CloneStep(t) ==
  \/ AnyRefCloneFetchAdd(t)
  \/ AnyRefCloneCheck(t)
  \/ \E u \in Threads : ~aborted /\ SendAnyRef(t, u)

NextClone ==
  \E t \in Threads : CloneStep(t)

SpecClone ==
  InitCell /\ [][NextClone]_vars

\* the type test of the downcast calls
\* a slip of try_downcast_mut: the type ids are not compared
TypeMatchesAny(stored, wanted) ==
  TRUE

\* Downcast for AnyRef: `inner_ref.type_id == TypeId::of::<U>()`
TypeMatches(stored, wanted) ==
  stored = wanted

\* ================================ try_downcast_ref, into_raw and from_raw
\* where Box::leak(Box::new(AnyRefInner::new(value))) put the cell
CellAddr ==
  8

\* where Box::new(value) put the payload that `data` points to
BoxAddr ==
  4

\* offset_of!(AnyRefInner, data): the struct is repr(C) and `data` is its first field
OffsetOfData ==
  0

\* utils::is_dangling: the address is usize::MAX
IsDangling(p) ==
  p = USIZE_MAX

\* a slip of into_raw: the payload address of as_ptr is handed out
IntoRawAsPtr(inner) ==
  BoxAddr

\* AnyRef::into_raw: `&raw const (*inner_ptr).data`
IntoRaw(inner) ==
  (inner + OffsetOfData) % Modulus

\* PtrInterface::from_raw_in: `obj.offset(-(data_offset as isize))` unless dangling
FromRawIn(p) ==
  IF IsDangling(p) THEN p ELSE (p - OffsetOfData) % Modulus

\* a slip of get_ref: the payload is handed out without looking at strong
IsValidAlways(n) ==
  TRUE

\* AnyRefInner::is_valid: `self.strong.load(Acquire) > 0`
IsValid(n) ==
  n > 0

\* what the reference counting leaves alone in the steps below
PayloadFrame ==
  UNCHANGED <<mvars, avars, hvars, fvars, cvars, kvars, type_id, data, ref_count, unwrapped, guard, gpc, local,
              updates, weak, dataDrops, freed, aborted, wh, reg, rres>>

\* the type test of try_downcast_ref::<U>; `must` is downcast_ref::<U>, which
\* panics where try_downcast_ref returns None
DowncastRefCall(t, U, must) ==
  /\ rpc[t] = "idle"
  /\ asked' = [asked EXCEPT ![t] = U]
  /\ rval' = [rval EXCEPT ![t] = None]
  /\ rpc' = [rpc EXCEPT ![t] =
               IF TypeMatches(type_id, U)
                 THEN IF must THEN "dc_valid" ELSE "dr_valid"
                 ELSE IF must THEN "dc_panic" ELSE "dr_ret"]
  /\ UNCHANGED <<strong, sh, raw, wild, rebuilt>>
  /\ PayloadFrame

\* AnyRef::try_downcast_ref / downcast_ref
AnyRefTryDowncastRef(t, U, must) ==
  /\ sh[t] > 0
  /\ DowncastRefCall(t, U, must)

\* WeakAnyRef::try_downcast_ref / downcast_ref
WeakAnyRefTryDowncastRef(t, U, must) ==
  /\ wh[t] > 0
  /\ DowncastRefCall(t, U, must)

\* AnyRefInner::get_ref: Some(&*self.get_ptr()) if is_valid(), which loads strong
DowncastRefValid(t) ==
  /\ rpc[t] \in {"dr_valid", "dc_valid"}
  /\ rval' = [rval EXCEPT ![t] = IF IsValid(strong) THEN Some(data) ELSE None]
  /\ rpc' = [rpc EXCEPT ![t] =
               IF rpc[t] = "dr_valid" THEN "dr_ret"
               ELSE IF IsValid(strong) THEN "dc_ret" ELSE "dc_panic"]
  /\ UNCHANGED <<strong, sh, raw, wild, rebuilt, asked>>
  /\ PayloadFrame

\* the frame of a finished call is gone
DowncastRefDone(t) ==
  /\ rpc' = [rpc EXCEPT ![t] = "idle"]
  /\ asked' = [asked EXCEPT ![t] = "i32"]
  /\ rval' = [rval EXCEPT ![t] = None]
  /\ UNCHANGED <<strong, sh, raw, wild, rebuilt>>
  /\ PayloadFrame

\* the call returns rval to its caller, which uses it up
DowncastRefReturn(t) ==
  /\ rpc[t] \in {"dr_ret", "dc_ret"}
  /\ DowncastRefDone(t)

\* Downcast::downcast_ref: `None => panic!("Downcast failed")`; the caller unwinds
DowncastRefPanic(t) ==
  /\ rpc[t] = "dc_panic"
  /\ DowncastRefDone(t)

\* AnyRef::into_raw: the handle is forgotten (ManuallyDrop), its unit of strong stays
AnyRefIntoRaw(t) ==
  /\ rpc[t] = "idle" /\ sh[t] > 0
  /\ raw[t] = 0 /\ rebuilt < MaxTrips
  /\ raw' = [raw EXCEPT ![t] = IntoRaw(CellAddr)]
  /\ sh' = [sh EXCEPT ![t] = @ - 1]
  /\ UNCHANGED <<strong, rpc, wild, rebuilt, asked, rval>>
  /\ PayloadFrame

\* AnyRef::from_raw: from_raw_in, then from_ptr_in wraps the pointer it computed
AnyRefFromRaw(t) ==
  /\ rpc[t] = "idle" /\ raw[t] # 0
  /\ raw' = [raw EXCEPT ![t] = 0]
  /\ rebuilt' = rebuilt + 1
  /\ IF FromRawIn(raw[t]) = CellAddr
       THEN sh' = [sh EXCEPT ![t] = @ + 1] /\ UNCHANGED wild
       ELSE wild' = wild + 1 /\ UNCHANGED sh
  /\ UNCHANGED <<strong, rpc, asked, rval>>
  /\ PayloadFrame

PayloadStep(t) ==
  \/ \E U \in Types, must \in BOOLEAN : AnyRefTryDowncastRef(t, U, must)
  \/ \E U \in Types, must \in BOOLEAN : WeakAnyRefTryDowncastRef(t, U, must)
  \/ DowncastRefValid(t)
  \/ DowncastRefReturn(t)
  \/ DowncastRefPanic(t)
  \/ AnyRefIntoRaw(t)
  \/ AnyRefFromRaw(t)

\* the calls that create, move and destroy handles
LifeStep(t) ==
  \/ \E u \in Threads : SendAnyRef(t, u)
  \/ \E u \in Threads : SendWeakAnyRef(t, u)
  \/ AnyRefClone(t)
  \/ AnyRefDrop(t)
  \/ AnyRefDropCheck(t)
  \/ AnyRefDropPayload(t)
  \/ ImplicitWeakDrop(t)
  \/ WeakAnyRefDrop(t)
  \/ WeakAnyRefDealloc(t)
  \/ AnyRefDowngrade(t)
  \/ AnyRefDowngradeLoop(t)
  \/ WeakAnyRefUpgrade(t)
  \/ WeakAnyRefUpgradeCas(t)
  \/ WeakAnyRefUpgradeNone(t)

NextPayload ==
  \E t \in Threads : LifeStep(t) \/ PayloadStep(t)

\* the threads' reads of the payload and their raw pointers to it
SpecPayload ==
  InitCell /\ [][NextPayload]_vars

\* ==================================================================== fill
\* a slip of fill: the type id of the cell is left as it was
FillTypeIdKept(was, T) ==
  was

\* `ref_inner.type_id = TypeId::of::<T>()`
FillTypeId(was, T) ==
  T

\* what fill leaves alone
FillFrame ==
  /\ UNCHANGED <<strong, weak, dataDrops, freed, aborted, sh, wh, reg, rres>>
  /\ UNCHANGED <<ref_count, unwrapped, raw, wild, rebuilt, rval>>
  /\ UNCHANGED <<mvars, gvars, avars, hvars, cvars, kvars>>

\* AnyRef::fill(this, value) with value v of type T, first store:
\* `ref_inner.data = Box::new(value)`; the assignment drops the box it replaces.
\* `this` is moved in and handed back, so the caller's handle stays the same
AnyRefFill(t, T, v) ==
  /\ rpc[t] = "idle" /\ sh[t] > 0
  /\ data' = v
  /\ farg' = [farg EXCEPT ![t] = [ty |-> T, val |-> v, was |-> type_id, old |-> data]]
  /\ filler' = IF \E u \in Threads \ {t} : rpc[u] = "fl_type" THEN 0 ELSE t
  /\ rpc' = [rpc EXCEPT ![t] = "fl_type"]
  /\ UNCHANGED type_id
  /\ FillFrame

\* second store: `ref_inner.type_id = TypeId::of::<T>()`, then `this` is returned
AnyRefFillType(t) ==
  /\ rpc[t] = "fl_type"
  /\ type_id' = FillTypeId(type_id, farg[t].ty)
  /\ filler' = IF filler = t THEN t ELSE 0
  /\ rpc' = [rpc EXCEPT ![t] = "idle"]
  /\ UNCHANGED <<data, farg>>
  /\ FillFrame

\* one step of thread t in a program that fills the cell, reads it through its
\* AnyRef handles, and clones, moves and drops them
FillStep(t) ==
  \/ \E T \in Types, v \in Values : AnyRefFill(t, T, v)
  \/ AnyRefFillType(t)
  \/ \E U \in Types, must \in BOOLEAN : AnyRefTryDowncastRef(t, U, must)
  \/ DowncastRefValid(t)
  \/ DowncastRefReturn(t)
  \/ DowncastRefPanic(t)
  \/ \E u \in Threads : SendAnyRef(t, u)
  \/ AnyRefClone(t)
  \/ AnyRefDrop(t)
  \/ AnyRefDropCheck(t)
  \/ AnyRefDropPayload(t)
  \/ ImplicitWeakDrop(t)
  \/ WeakAnyRefDealloc(t)

NextFill ==
  \E t \in Threads : FillStep(t)

\* the threads fill one cell and read it back
SpecFill ==
  InitCell /\ [][NextFill]_vars

\* ===================================== try_downcast_mut and WatchGuardMut
\* a thread that is not inside a call or a guard, and owns a handle
GuardIdle(t) ==
  /\ gpc[t] = "idle" /\ pc[t] = "idle" /\ rpc[t] = "idle"
  /\ ~guard[t] /\ holds[t] = "none"
  /\ sh[t] > 0

\* what the guard steps leave alone
GuardFrame ==
  UNCHANGED <<mvars, avars, hvars, fvars, cvars, kvars, rvars, type_id, unwrapped, raw, wild, rebuilt>>

\* AnyRef::try_downcast_mut::<U>: the comparison of the type ids
AnyRefTryDowncastMut(t, U) ==
  /\ GuardIdle(t)
  /\ asked' = [asked EXCEPT ![t] = U]
  /\ gpc' = [gpc EXCEPT ![t] = IF TypeMatches(type_id, U) THEN "dm_clone" ELSE "dm_none"]
  /\ UNCHANGED <<guard, local, updates, data, ref_count, rval>>
  /\ GuardFrame

\* the else branch: None, nothing was touched
DowncastMutNone(t) ==
  /\ gpc[t] = "dm_none"
  /\ gpc' = [gpc EXCEPT ![t] = "idle"]
  /\ rval' = [rval EXCEPT ![t] = None]
  /\ UNCHANGED <<asked, guard, local, updates, data, ref_count>>
  /\ GuardFrame

\* `let lock = inner_ref.lock.clone()`: Clone for Mutex, ref_count.fetch_add(1)
DowncastMutClone(t) ==
  /\ gpc[t] = "dm_clone"
  /\ ref_count' = WrapAdd(ref_count, 1)
  /\ gpc' = [gpc EXCEPT ![t] = "dm_lock"]
  /\ UNCHANGED <<asked, guard, local, updates, data, rval>>
  /\ GuardFrame

\* `lock.lock()`: the exclusive acquisition of the embedded mutex
MutexLock(t) ==
  /\ gpc[t] = "dm_lock" /\ holds[t] = "none"
  /\ CallLockExclusive(t)

\* the lock is held: `Some(WatchGuard::new(ptr, lock))`
DowncastMutSome(t) ==
  /\ gpc[t] = "dm_lock" /\ pc[t] = "idle" /\ holds[t] = "excl"
  /\ guard' = [guard EXCEPT ![t] = TRUE]
  /\ rval' = [rval EXCEPT ![t] = Some(data)]
  /\ gpc' = [gpc EXCEPT ![t] = "idle"]
  /\ UNCHANGED <<asked, local, updates, data, ref_count>>
  /\ GuardFrame

\* Deref for WatchGuardMut: the holder of the guard reads the payload
GuardRead(t) ==
  /\ guard[t] /\ gpc[t] = "idle"
  /\ updates < MaxUpdates
  /\ local' = [local EXCEPT ![t] = data]
  /\ gpc' = [gpc EXCEPT ![t] = "g_write"]
  /\ UNCHANGED <<asked, guard, updates, data, ref_count, rval>>
  /\ GuardFrame

\* DerefMut for WatchGuardMut: it writes back the value it read, plus one
GuardWrite(t) ==
  /\ gpc[t] = "g_write"
  /\ data' = local[t] + 1
  /\ updates' = updates + 1
  /\ gpc' = [gpc EXCEPT ![t] = "idle"]
  /\ UNCHANGED <<asked, guard, local, ref_count, rval>>
  /\ GuardFrame

\* the guard goes out of scope: Drop for WatchGuardMut begins
WatchGuardMutDrop(t) ==
  /\ guard[t] /\ gpc[t] = "idle"
  /\ guard' = [guard EXCEPT ![t] = FALSE]
  /\ gpc' = [gpc EXCEPT ![t] = "gd_unlock"]
  /\ UNCHANGED <<asked, local, updates, data, ref_count, rval>>
  /\ GuardFrame

\* Drop for WatchGuardMut: `self.lock.unlock_exclusive()`
GuardUnlock(t) ==
  /\ gpc[t] = "gd_unlock" /\ holds[t] = "excl"
  /\ CallUnlockExclusive(t)

\* after drop() the field `lock` is dropped: Drop for Mutex, ref_count.fetch_sub(1)
GuardMutexDrop(t) ==
  /\ gpc[t] = "gd_unlock" /\ pc[t] = "idle" /\ holds[t] = "none"
  /\ ref_count' = WrapSub(ref_count, 1)
  /\ gpc' = [gpc EXCEPT ![t] = "idle"]
  /\ UNCHANGED <<asked, guard, local, updates, data, rval>>
  /\ GuardFrame

\* ------------------------------------------------------------ is_locked
\* AnyRef::is_locked: `self.inner().lock.is_locked()`
CallIsLocked(t) ==
  /\ GuardIdle(t)
  /\ pc' = [pc EXCEPT ![t] = "il_g_state"]
  /\ op' = [op EXCEPT ![t] = "is_locked"]
  /\ UNCHANGED <<state, locked, wake_deadlock, parking_e, parking_g, token,
                 wtype, res, step, holds, misuses>>
  /\ Calm(t) /\ UNCHANGED offMutex

\* a slip of is_locked_exclusive: the free state taken to be DIRTY only
ExclusiveFreeDirtyOnly(s) ==
  s = DIRTY

\* is_locked_exclusive: `state == UNLOCKED`
ExclusiveFree(s) ==
  s = UNLOCKED

\* is_locked_group() || is_locked_exclusive(), one atomic load per step
IsLockedStep(t) ==
  /\ pc[t] \in {"il_g_state", "il_g_locked", "il_e_state", "il_e_locked"}
  /\ LET answer(b) == /\ res' = [res EXCEPT ![t] = b]
                      /\ pc' = [pc EXCEPT ![t] = "il_ret"]
         goto(p) == /\ pc' = [pc EXCEPT ![t] = p]
                    /\ UNCHANGED res
     IN CASE pc[t] = "il_g_state" ->
               IF state = LOCKED_GROUP THEN answer(TRUE)
               ELSE IF state = DIRTY THEN goto("il_g_locked")
               ELSE goto("il_e_state")
          [] pc[t] = "il_g_locked" ->
               IF locked > 0 THEN answer(TRUE) ELSE goto("il_e_state")
          [] pc[t] = "il_e_state" ->
               IF ExclusiveFree(state) THEN answer(FALSE)
               ELSE IF state = DIRTY THEN goto("il_e_locked")
               ELSE answer(TRUE)
          [] pc[t] = "il_e_locked" ->
               answer(locked # 0)
  /\ UNCHANGED <<state, locked, wake_deadlock, parking_e, parking_g, token,
                 op, wtype, step, holds, misuses>>
  /\ Calm(t) /\ UNCHANGED offMutex

\* the caller receives the boolean
IsLockedReturn(t) ==
  /\ pc[t] = "il_ret"
  /\ Return(t)
  /\ UNCHANGED <<state, locked, wake_deadlock, parking_e, parking_g, token,
                 wtype, holds, misuses>>
  /\ Calm(t) /\ UNCHANGED offMutex

\* a thread that is not using a guard clones its handle or hands one over
GuardClone(t) ==
  /\ GuardIdle(t)
  /\ AnyRefClone(t)

GuardSend(t, u) ==
  /\ GuardIdle(t)
  /\ SendAnyRef(t, u)

\* one step of thread t in a program that reaches the payload through guards
GuardStep(t) ==
  \/ GuardClone(t)
  \/ \E u \in Threads : GuardSend(t, u)
  \/ \E U \in Types : AnyRefTryDowncastMut(t, U)
  \/ DowncastMutNone(t)
  \/ DowncastMutClone(t)
  \/ MutexLock(t)
  \/ DowncastMutSome(t)
  \/ GuardRead(t)
  \/ GuardWrite(t)
  \/ WatchGuardMutDrop(t)
  \/ GuardUnlock(t)
  \/ GuardMutexDrop(t)
  \/ CallIsLocked(t)
  \/ IsLockedStep(t)
  \/ IsLockedReturn(t)
  \/ LockExclusiveSpin(t)
  \/ LockExclusiveCas(t)
  \/ SuspendCas(t)
  \/ SuspendPush(t)
  \/ SuspendRelease(t)
  \/ SuspendPark(t)
  \/ UnlockExclusiveCas(t)
  \/ WakeCas(t)
  \/ WakePop(t)
  \/ WakeRelease(t)

NextGuard ==
  \E t \in Threads : GuardStep(t)

SpecGuard ==
  Init /\ [][NextGuard]_vars

\* ------------------------------------------------- the lock observers
\* a thread asks the mutex whether it is held, whatever it holds itself
CallIsLockedGroup(t) ==
  /\ pc[t] = "idle"
  /\ pc' = [pc EXCEPT ![t] = "ig_state"]
  /\ op' = [op EXCEPT ![t] = "is_locked_group"]
  /\ UNCHANGED <<state, locked, wake_deadlock, parking_e, parking_g, token,
                 wtype, res, step, holds, misuses>>
  /\ Calm(t) /\ UNCHANGED offMutex

CallIsLockedExclusive(t) ==
  /\ pc[t] = "idle"
  /\ pc' = [pc EXCEPT ![t] = "ie_state"]
  /\ op' = [op EXCEPT ![t] = "is_locked_exclusive"]
  /\ UNCHANGED <<state, locked, wake_deadlock, parking_e, parking_g, token,
                 wtype, res, step, holds, misuses>>
  /\ Calm(t) /\ UNCHANGED offMutex

\* `state == LOCKED_GROUP || (state == DIRTY && locked.load(Acquire) > 0)`
IsLockedGroupStep(t) ==
  /\ pc[t] \in {"ig_state", "ig_locked"}
  /\ IF pc[t] = "ig_state" /\ state = DIRTY
       THEN pc' = [pc EXCEPT ![t] = "ig_locked"] /\ UNCHANGED res
       ELSE /\ pc' = [pc EXCEPT ![t] = "il_ret"]
            /\ res' = [res EXCEPT ![t] = IF pc[t] = "ig_state" THEN state = LOCKED_GROUP
                                         ELSE locked > 0]
  /\ UNCHANGED <<state, locked, wake_deadlock, parking_e, parking_g, token,
                 op, wtype, step, holds, misuses>>
  /\ Calm(t) /\ UNCHANGED offMutex

\* `!(state == UNLOCKED || (state == DIRTY && locked.load(Acquire) == 0))`
IsLockedExclusiveStep(t) ==
  /\ pc[t] \in {"ie_state", "ie_locked"}
  /\ IF pc[t] = "ie_state" /\ state = DIRTY
       THEN pc' = [pc EXCEPT ![t] = "ie_locked"] /\ UNCHANGED res
       ELSE /\ pc' = [pc EXCEPT ![t] = "il_ret"]
            /\ res' = [res EXCEPT ![t] = IF pc[t] = "ie_state" THEN ~ExclusiveFree(state)
                                         ELSE ~(locked = 0)]
  /\ UNCHANGED <<state, locked, wake_deadlock, parking_e, parking_g, token,
                 op, wtype, step, holds, misuses>>
  /\ Calm(t) /\ UNCHANGED offMutex

\* one step of thread t in a program that also watches the mutex
ObserveStep(t) ==
  \/ Step(t)
  \/ CallIsLockedGroup(t)
  \/ CallIsLockedExclusive(t)
  \/ IsLockedGroupStep(t)
  \/ IsLockedExclusiveStep(t)
  \/ IsLockedReturn(t)

NextObserve ==
  \E t \in Threads : ObserveStep(t)

SpecObserve ==
  Init /\ [][NextObserve]_vars

\* ================================================ collections::AtomicVec
\* what push and pop leave alone
offVec ==
  <<mvars, rvars, pvars, gvars, hvars, fvars, cvars, kvars>>

\* the items linked from item i on, following at most n next pointers (the walk of
\* Drop for AtomicVec)
RECURSIVE ListFrom(_, _)
ListFrom(i, n) ==
  IF i = 0 \/ n = 0 THEN <<>> ELSE <<i>> \o ListFrom(next[i], n - 1)

\* a slip of update_tail: the old tail is not linked to the new item
UpdateTailUnlinked(item) ==
  /\ next' = next
  /\ tail' = item
  /\ head' = IF head = 0 THEN item ELSE head
  /\ len' = len + 1

\* AtomicVec::update_tail, called with the state held at UPDATING: link the item
\* behind the tail, make it the tail, make it the head if the head is null, count it
UpdateTail(item) ==
  /\ next' = IF tail # 0 THEN [next EXCEPT ![tail] = item] ELSE next
  /\ tail' = item
  /\ head' = IF head = 0 THEN item ELSE head
  /\ len' = len + 1

\* AtomicVec::push: Item::new(val), then `if self.is_busy()`
VecPush(t) ==
  /\ vpc[t] = "idle" /\ made < MaxItems
  /\ made' = made + 1
  /\ owner' = [owner EXCEPT ![made + 1] = t]
  /\ vitem' = [vitem EXCEPT ![t] = made + 1]
  /\ vpc' = [vpc EXCEPT ![t] = IF vec_state # AVAILABLE THEN "p_cas" ELSE "p_lock"]
  /\ UNCHANGED <<head, tail, t_tail, next, len, vec_state, popped>>
  /\ UNCHANGED offVec

\* `t_tail.compare_exchange(null_mut(), item, ..)`: push returns if it succeeds
VecPushTemp(t) ==
  /\ vpc[t] = "p_cas"
  /\ IF t_tail = 0
       THEN /\ t_tail' = vitem[t]
            /\ vitem' = [vitem EXCEPT ![t] = 0]
            /\ vpc' = [vpc EXCEPT ![t] = "idle"]
       ELSE /\ vpc' = [vpc EXCEPT ![t] = "p_lock"]
            /\ UNCHANGED <<t_tail, vitem>>
  /\ UNCHANGED <<head, tail, next, len, vec_state, made, owner, popped>>
  /\ UNCHANGED offVec

\* AtomicVec::lock: the compare_exchange(AVAILABLE, UPDATING) that ends the snooze loop
VecLock(t) ==
  /\ vpc[t] \in {"p_lock", "o_lock"}
  /\ vec_state = AVAILABLE
  /\ vec_state' = UPDATING
  /\ vpc' = [vpc EXCEPT ![t] = IF vpc[t] = "p_lock" THEN "p_tail" ELSE "o_head"]
  /\ UNCHANGED <<head, tail, t_tail, next, len, vitem, made, owner, popped>>
  /\ UNCHANGED offVec

\* push: `self.update_tail(item)`
VecPushTail(t) ==
  /\ vpc[t] = "p_tail"
  /\ UpdateTail(vitem[t])
  /\ vitem' = [vitem EXCEPT ![t] = 0]
  /\ vpc' = [vpc EXCEPT ![t] = "pr_swap"]
  /\ UNCHANGED <<t_tail, vec_state, made, owner, popped>>
  /\ UNCHANGED offVec

\* AtomicVec::release: `t_tail.swap(null_mut())` and update_tail of what it held
VecReleaseSwap(t) ==
  /\ vpc[t] \in {"pr_swap", "or_swap"}
  /\ t_tail' = 0
  /\ IF t_tail # 0
       THEN UpdateTail(t_tail)
       ELSE UNCHANGED <<head, tail, next, len>>
  /\ vpc' = [vpc EXCEPT ![t] = IF vpc[t] = "pr_swap" THEN "pr_store" ELSE "or_store"]
  /\ UNCHANGED <<vec_state, vitem, made, owner, popped>>
  /\ UNCHANGED offVec

\* AtomicVec::release: `state.store(AVAILABLE, Release)`; push returns after it
VecReleaseStore(t) ==
  /\ vpc[t] \in {"pr_store", "or_store"}
  /\ vec_state' = AVAILABLE
  /\ vpc' = [vpc EXCEPT ![t] = IF vpc[t] = "pr_store" THEN "idle" ELSE "o_take"]
  /\ UNCHANGED <<head, tail, t_tail, next, len, vitem, made, owner, popped>>
  /\ UNCHANGED offVec

\* the item of the push that thread u is running: the last one it created
InPush(u) ==
  IF vpc[u] \in {"p_cas", "p_lock", "p_tail", "pr_swap", "pr_store"}
    THEN {i \in 1 .. made : owner[i] = u /\ \A j \in 1 .. made : owner[j] = u => j <= i}
    ELSE {}

\* the items whose push has returned and that no pop has unlinked
Pushed ==
  (1 .. made) \ (UNION {InPush(u) : u \in Threads} \cup {popped[k] : k \in DOMAIN popped})

\* AtomicVec::pop is called
VecPop(t) ==
  /\ vpc[t] = "idle"
  /\ vpc' = [vpc EXCEPT ![t] = "o_lock"]
  /\ seen' = [seen EXCEPT ![t] = Pushed]
  /\ UNCHANGED <<head, tail, t_tail, next, len, vec_state, vitem, made, owner, popped>>
  /\ UNCHANGED <<vref_count, vh, vfreed, vgone>>
  /\ UNCHANGED <<mvars, rvars, pvars, gvars, hvars, fvars, kvars>>

\* pop with the state held: read the head, unlink it, null the tail if it was the head
VecPopHead(t) ==
  /\ vpc[t] = "o_head"
  /\ vitem' = [vitem EXCEPT ![t] = head]
  /\ IF head = 0
       THEN UNCHANGED <<head, tail, popped>>
       ELSE /\ head' = next[head]
            /\ tail' = IF head = tail THEN 0 ELSE tail
            /\ popped' = Append(popped, head)
  /\ vpc' = [vpc EXCEPT ![t] = "or_swap"]
  /\ UNCHANGED <<t_tail, next, len, vec_state, made, owner>>
  /\ UNCHANGED offVec

\* pop after release: None if the head was null, else the value is read out of the
\* item, the item is freed and len is decremented
VecPopTake(t) ==
  /\ vpc[t] = "o_take"
  /\ len' = IF vitem[t] = 0 THEN len ELSE WrapSub(len, 1)
  /\ vitem' = [vitem EXCEPT ![t] = 0]
  /\ vpc' = [vpc EXCEPT ![t] = "idle"]
  /\ UNCHANGED <<head, tail, t_tail, next, vec_state, made, owner, popped>>
  /\ UNCHANGED offVec

VecStep(t) ==
  \/ VecPush(t)
  \/ VecPushTemp(t)
  \/ VecLock(t)
  \/ VecPushTail(t)
  \/ VecReleaseSwap(t)
  \/ VecReleaseStore(t)
  \/ VecPop(t)
  \/ VecPopHead(t)
  \/ VecPopTake(t)

NextVec ==
  \E t \in Threads : VecStep(t)

\* the threads push into and pop from one AtomicVec
SpecVec ==
  Init /\ [][NextVec]_vars

\* ------------------------------------------- the handles of the AtomicVec
\* what clone and drop of a handle leave alone
VecLifeFrame ==
  /\ UNCHANGED <<head, tail, t_tail, next, len, vec_state, vitem, made, owner, popped>>
  /\ UNCHANGED seen
  /\ UNCHANGED <<mvars, rvars, pvars, gvars, hvars, fvars, kvars>>

\* Clone for AtomicVec: ref_count.fetch_add(1, Acquire)
VecClone(t) ==
  /\ vpc[t] = "idle" /\ vh[t] > 0
  /\ SumTo(vh, NThreads) < MaxCount
  /\ vref_count' = WrapAdd(vref_count, 1)
  /\ vh' = [vh EXCEPT ![t] = @ + 1]
  /\ UNCHANGED <<vpc, vfreed, vgone>>
  /\ VecLifeFrame

\* Drop for AtomicVec: `if ref_count.fetch_sub(1, Release) == 1`; the handle is gone
VecDrop(t) ==
  /\ vpc[t] = "idle" /\ vh[t] > 0
  /\ vref_count' = WrapSub(vref_count, 1)
  /\ vh' = [vh EXCEPT ![t] = @ - 1]
  /\ vpc' = [vpc EXCEPT ![t] = IF vref_count = 1 THEN "d_walk" ELSE "idle"]
  /\ UNCHANGED <<vfreed, vgone>>
  /\ VecLifeFrame

\* the loop of the last drop: from `head`, drop the value and free the item, go
\* on with `next` until null
VecDropWalk(t) ==
  /\ vpc[t] = "d_walk"
  /\ vfreed' = vfreed \o ListFrom(head, MaxItems + 1)
  /\ vpc' = [vpc EXCEPT ![t] = "d_free"]
  /\ UNCHANGED <<vref_count, vh, vgone>>
  /\ VecLifeFrame

\* `drop(Box::from_raw(ptr))`: the AtomicInner is freed
VecDropFree(t) ==
  /\ vpc[t] = "d_free"
  /\ vgone' = vgone + 1
  /\ vpc' = [vpc EXCEPT ![t] = "idle"]
  /\ UNCHANGED <<vref_count, vh, vfreed>>
  /\ VecLifeFrame

\* one step of thread t in a program that uses, clones and drops its handles
VecLifeStep(t) ==
  \/ vh[t] > 0 /\ VecStep(t)
  \/ VecClone(t)
  \/ VecDrop(t)
  \/ VecDropWalk(t)
  \/ VecDropFree(t)

NextVecLife ==
  \E t \in Threads : VecLifeStep(t)

\* the threads push, pop, and clone and drop their handles of one AtomicVec
SpecVecLife ==
  Init /\ [][NextVecLife]_vars

\* ====================================================== mutex::AtomicVec
\* the AtomicVec of mutex/atomic_vec.rs: the same list without the temp tail; its
\* state is held with lock() and given back with a plain store
\* push: `let item = Item::new(val); self.lock()` is next
MutexVecPush(t) ==
  /\ vpc[t] = "idle" /\ made < MaxItems
  /\ made' = made + 1
  /\ owner' = [owner EXCEPT ![made + 1] = t]
  /\ vitem' = [vitem EXCEPT ![t] = made + 1]
  /\ vpc' = [vpc EXCEPT ![t] = "k_lock"]
  /\ UNCHANGED <<head, tail, t_tail, next, len, vec_state, popped>>
  /\ UNCHANGED offVec

\* lock: the compare_exchange(AVAILABLE, UPDATING) that ends the snooze loop
MutexVecLock(t) ==
  /\ vpc[t] \in {"k_lock", "q_lock"}
  /\ vec_state = AVAILABLE
  /\ vec_state' = UPDATING
  /\ vpc' = [vpc EXCEPT ![t] = IF vpc[t] = "k_lock" THEN "k_link" ELSE "q_head"]
  /\ UNCHANGED <<head, tail, t_tail, next, len, vitem, made, owner, popped>>
  /\ UNCHANGED offVec

\* push with the state held: link the item behind the tail, make it the tail, and
\* make it the head if the head is null
MutexVecPushLink(t) ==
  /\ vpc[t] = "k_link"
  /\ next' = IF tail # 0 THEN [next EXCEPT ![tail] = vitem[t]] ELSE next
  /\ tail' = vitem[t]
  /\ head' = IF head = 0 THEN vitem[t] ELSE head
  /\ vitem' = [vitem EXCEPT ![t] = 0]
  /\ vpc' = [vpc EXCEPT ![t] = "k_release"]
  /\ UNCHANGED <<t_tail, len, vec_state, made, owner, popped>>
  /\ UNCHANGED offVec

\* release: `state.store(AVAILABLE, Release)`
MutexVecRelease(t) ==
  /\ vpc[t] \in {"k_release", "q_release"}
  /\ vec_state' = AVAILABLE
  /\ vpc' = [vpc EXCEPT ![t] = IF vpc[t] = "k_release" THEN "k_len" ELSE "q_take"]
  /\ UNCHANGED <<head, tail, t_tail, next, len, vitem, made, owner, popped>>
  /\ UNCHANGED offVec

\* push after release: `inner.len.fetch_add(1, Release)`
MutexVecPushLen(t) ==
  /\ vpc[t] = "k_len"
  /\ len' = WrapAdd(len, 1)
  /\ vpc' = [vpc EXCEPT ![t] = "idle"]
  /\ UNCHANGED <<head, tail, t_tail, next, vec_state, vitem, made, owner, popped>>
  /\ UNCHANGED offVec

\* pop is called: `self.lock()` is next
MutexVecPop(t) ==
  /\ vpc[t] = "idle"
  /\ vpc' = [vpc EXCEPT ![t] = "q_lock"]
  /\ UNCHANGED <<head, tail, t_tail, next, len, vec_state, vitem, made, owner, popped>>
  /\ UNCHANGED offVec

\* pop with the state held: read the head, unlink it, null the tail if it was the head
MutexVecPopHead(t) ==
  /\ vpc[t] = "q_head"
  /\ vitem' = [vitem EXCEPT ![t] = head]
  /\ IF head = 0
       THEN UNCHANGED <<head, tail, popped>>
       ELSE /\ head' = next[head]
            /\ tail' = IF head = tail THEN 0 ELSE tail
            /\ popped' = Append(popped, head)
  /\ vpc' = [vpc EXCEPT ![t] = "q_release"]
  /\ UNCHANGED <<t_tail, next, len, vec_state, made, owner>>
  /\ UNCHANGED offVec

\* pop after release: None if the head was null, else the value is read out of the
\* item, the item is freed and `inner.len.fetch_sub(1, Release)`
MutexVecPopTake(t) ==
  /\ vpc[t] = "q_take"
  /\ len' = IF vitem[t] = 0 THEN len ELSE WrapSub(len, 1)
  /\ vitem' = [vitem EXCEPT ![t] = 0]
  /\ vpc' = [vpc EXCEPT ![t] = "idle"]
  /\ UNCHANGED <<head, tail, t_tail, next, vec_state, made, owner, popped>>
  /\ UNCHANGED offVec

MutexVecStep(t) ==
  \/ MutexVecPush(t)
  \/ MutexVecLock(t)
  \/ MutexVecPushLink(t)
  \/ MutexVecRelease(t)
  \/ MutexVecPushLen(t)
  \/ MutexVecPop(t)
  \/ MutexVecPopHead(t)
  \/ MutexVecPopTake(t)

NextMutexVec ==
  \E t \in Threads : MutexVecStep(t)

\* the threads push into and pop from one AtomicVec of the mutex module
SpecMutexVec ==
  Init /\ [][NextMutexVec]_vars

\* ============================================================ AtomicHashMap
\* what the methods of the map leave alone
MapFrame ==
  UNCHANGED <<mvars, rvars, pvars, gvars, avars, fvars, cvars, kvars>>

\* AtomicHashMap::hash: DefaultHasher is a fixed function of the key
Hash(k) ==
  k

\* find_bucket: `h as usize % self.inner().buckets.len()`
FindBucket(k) ==
  Hash(k) % NBuckets

\* the walk `while !cur.is_null() { if (*cur).key == key ...; cur = (*cur).next }`:
\* the position of the first item with the key, 0 if the walk ends at null
Find(list, k) ==
  IF \E i \in DOMAIN list : list[i][1] = k
    THEN CHOOSE i \in DOMAIN list : list[i][1] = k /\ \A j \in 1 .. i - 1 : list[j][1] # k
    ELSE 0

\* the list without its item at position i
Unlink(list, i) ==
  SubSeq(list, 1, i - 1) \o SubSeq(list, i + 1, Len(list))

\* a slip of the update: the item keeps the value it had
SetValueKept(list, k, v) ==
  list

\* the list with value v in the item of key k
SetValue(list, k, v) ==
  [i \in DOMAIN list |-> IF list[i][1] = k THEN <<k, v>> ELSE list[i]]

\* a slip of Bucket::lock: the bucket is entered whatever its state
BucketFreeAlways(s) ==
  TRUE

\* Bucket::lock: compare_exchange(BUCKET_AVAILABLE, BUCKET_UPDATING) succeeds
BucketFree(s) ==
  s = BUCKET_AVAILABLE

\* Iter::advance_bucket from bucket idx with a null current: the first bucket at
\* or after idx that has a head, and that head; NBuckets and null if there is none
AdvanceBucket(idx) ==
  LET full == {b \in Buckets : b >= idx /\ buckets[b] # <<>>} IN
  IF full = {} THEN <<NBuckets, 0>>
  ELSE LET b == CHOOSE c \in full : \A d \in full : c <= d IN <<b, buckets[b][1][1]>>

\* ------------------------------------------------------------------ insert
\* insert(key, value): find_bucket, then the call of lock.lock_group() is next
CallInsert(t, k) ==
  /\ hpc[t] = "idle" /\ pc[t] = "idle" /\ holds[t] = "none"
  /\ ncalls[t] < MaxCalls
  /\ ncalls' = [ncalls EXCEPT ![t] = @ + 1]
  /\ inserts[k] < MaxInserts
  /\ hpc' = [hpc EXCEPT ![t] = "ins_lock"]
  /\ hkey' = [hkey EXCEPT ![t] = k]
  /\ inserts' = [inserts EXCEPT ![k] = @ + 1]
  /\ want' = [want EXCEPT ![k] = t]
  /\ UNCHANGED <<buckets, bucket_state, ref_locked, map_len, hcur, hhead, it_idx,
                 it_cur, gone>>
  /\ MapFrame

\* the walk each method starts once it has the bucket
ScanPc(p) ==
  CASE p = "ins_lock" -> "ins_scan"
    [] p = "rm_lock" -> "rm_scan"
    [] p = "get_lock" -> "get_scan"
    [] OTHER -> "gm_scan"

\* bucket.lock(), once lock_group has returned (insert, remove, get and get_mut)
BucketLock(t) ==
  /\ hpc[t] \in {"ins_lock", "rm_lock", "get_lock", "gm_lock"}
  /\ pc[t] = "idle" /\ holds[t] = "group"
  /\ BucketFree(bucket_state[FindBucket(hkey[t])])
  /\ bucket_state' = [bucket_state EXCEPT ![FindBucket(hkey[t])] = BUCKET_UPDATING]
  /\ hpc' = [hpc EXCEPT ![t] = ScanPc(hpc[t])]
  /\ UNCHANGED <<buckets, ref_locked, map_len, hkey, hcur, hhead, it_idx, it_cur,
                 inserts, gone, want, ncalls>>
  /\ MapFrame

\* `let head = bucket.head.load(Acquire)` and the walk that looks for the key
InsertScan(t) ==
  /\ hpc[t] = "ins_scan"
  /\ LET list == buckets[FindBucket(hkey[t])] IN
     /\ hhead' = [hhead EXCEPT ![t] = list]
     /\ IF Find(list, hkey[t]) # 0
          THEN /\ hpc' = [hpc EXCEPT ![t] = "ins_upd_lock"]
               /\ hcur' = [hcur EXCEPT ![t] = hkey[t]]
          ELSE /\ hpc' = [hpc EXCEPT ![t] = "ins_store"]
               /\ UNCHANGED hcur
  /\ UNCHANGED <<buckets, bucket_state, ref_locked, map_len, hkey, it_idx, it_cur,
                 inserts, gone, want, ncalls>>
  /\ MapFrame

\* prepend new: `(*new_item).next.store(head)`, `bucket.head.store(new_item)`
InsertStore(t) ==
  /\ hpc[t] = "ins_store"
  /\ buckets' = [buckets EXCEPT ![FindBucket(hkey[t])] = <<<<hkey[t], t>>>> \o hhead[t]]
  /\ hhead' = [hhead EXCEPT ![t] = <<>>]
  /\ hpc' = [hpc EXCEPT ![t] = "ins_release"]
  /\ UNCHANGED <<bucket_state, ref_locked, map_len, hkey, hcur, it_idx, it_cur,
                 inserts, gone, want, ncalls>>
  /\ MapFrame

\* bucket.release()
InsertRelease(t) ==
  /\ hpc[t] = "ins_release"
  /\ bucket_state' = [bucket_state EXCEPT ![FindBucket(hkey[t])] = BUCKET_AVAILABLE]
  /\ hpc' = [hpc EXCEPT ![t] = "ins_len"]
  /\ UNCHANGED <<buckets, ref_locked, map_len, hkey, hcur, hhead, it_idx, it_cur,
                 inserts, gone, want, ncalls>>
  /\ MapFrame

\* self.inner().len.fetch_add(1, Relaxed); the call of lock.unlock_group() is next
InsertLen(t) ==
  /\ hpc[t] = "ins_len"
  /\ map_len' = WrapAdd(map_len, 1)
  /\ hpc' = [hpc EXCEPT ![t] = "ins_unlock"]
  /\ UNCHANGED <<buckets, bucket_state, ref_locked, hkey, hcur, hhead, it_idx, it_cur,
                 inserts, gone, want, ncalls>>
  /\ MapFrame

\* the key exists: bucket.ref_locked.lock_exclusive()
InsertUpdateLock(t) ==
  /\ hpc[t] = "ins_upd_lock"
  /\ ref_locked[FindBucket(hkey[t])] = 0
  /\ ref_locked' = [ref_locked EXCEPT ![FindBucket(hkey[t])] = t]
  /\ hpc' = [hpc EXCEPT ![t] = "ins_upd_drop"]
  /\ UNCHANGED <<buckets, bucket_state, map_len, hkey, hcur, hhead, it_idx, it_cur,
                 inserts, gone, want, ncalls>>
  /\ MapFrame

\* ManuallyDrop::drop(&mut (*cur).value); bucket.ref_locked.unlock_exclusive()
InsertUpdateDrop(t) ==
  /\ hpc[t] = "ins_upd_drop"
  /\ buckets' = [buckets EXCEPT ![FindBucket(hkey[t])] = SetValue(@, hcur[t], 0)]
  /\ ref_locked' = [ref_locked EXCEPT ![FindBucket(hkey[t])] = 0]
  /\ hpc' = [hpc EXCEPT ![t] = "ins_upd_write"]
  /\ UNCHANGED <<bucket_state, map_len, hkey, hcur, hhead, it_idx, it_cur,
                 inserts, gone, want, ncalls>>
  /\ MapFrame

\* (*cur).value = ManuallyDrop::new(value); bucket.release()
InsertUpdateWrite(t) ==
  /\ hpc[t] = "ins_upd_write"
  /\ buckets' = [buckets EXCEPT ![FindBucket(hkey[t])] = SetValue(@, hcur[t], t)]
  /\ bucket_state' = [bucket_state EXCEPT ![FindBucket(hkey[t])] = BUCKET_AVAILABLE]
  /\ hcur' = [hcur EXCEPT ![t] = 0]
  /\ hhead' = [hhead EXCEPT ![t] = <<>>]
  /\ hpc' = [hpc EXCEPT ![t] = "ins_unlock"]
  /\ UNCHANGED <<ref_locked, map_len, hkey, it_idx, it_cur, inserts, gone, want, ncalls>>
  /\ MapFrame

\* ------------------------------------------------------------------ remove
CallRemove(t, k) ==
  /\ hpc[t] = "idle" /\ pc[t] = "idle" /\ holds[t] = "none"
  /\ ncalls[t] < MaxCalls
  /\ ncalls' = [ncalls EXCEPT ![t] = @ + 1]
  /\ hpc' = [hpc EXCEPT ![t] = "rm_lock"]
  /\ hkey' = [hkey EXCEPT ![t] = k]
  /\ gone' = [gone EXCEPT ![k] = TRUE]
  /\ UNCHANGED <<buckets, bucket_state, ref_locked, map_len, hcur, hhead, it_idx,
                 it_cur, inserts, want>>
  /\ MapFrame

\* the walk with prev and cur, and the unlink of the item found
RemoveScan(t) ==
  /\ hpc[t] = "rm_scan"
  /\ LET b == FindBucket(hkey[t])
         i == Find(buckets[b], hkey[t]) IN
     IF i # 0
       THEN /\ buckets' = [buckets EXCEPT ![b] = Unlink(@, i)]
            /\ hcur' = [hcur EXCEPT ![t] = hkey[t]]
            /\ hpc' = [hpc EXCEPT ![t] = "rm_len"]
       ELSE /\ hpc' = [hpc EXCEPT ![t] = "rm_release"]
            /\ UNCHANGED <<buckets, hcur>>
  /\ UNCHANGED <<bucket_state, ref_locked, map_len, hkey, hhead, it_idx, it_cur,
                 inserts, gone, want, ncalls>>
  /\ MapFrame

\* self.inner().len.fetch_sub(1, Relaxed)
RemoveLen(t) ==
  /\ hpc[t] = "rm_len"
  /\ map_len' = WrapSub(map_len, 1)
  /\ hpc' = [hpc EXCEPT ![t] = "rm_release"]
  /\ UNCHANGED <<buckets, bucket_state, ref_locked, hkey, hcur, hhead, it_idx, it_cur,
                 inserts, gone, want, ncalls>>
  /\ MapFrame

\* bucket.release(), on either path
RemoveRelease(t) ==
  /\ hpc[t] = "rm_release"
  /\ bucket_state' = [bucket_state EXCEPT ![FindBucket(hkey[t])] = BUCKET_AVAILABLE]
  /\ hpc' = [hpc EXCEPT ![t] = IF hcur[t] # 0 THEN "rm_ref_lock" ELSE "rm_unlock"]
  /\ UNCHANGED <<buckets, ref_locked, map_len, hkey, hcur, hhead, it_idx, it_cur,
                 inserts, gone, want, ncalls>>
  /\ MapFrame

\* bucket.ref_locked.lock_exclusive()
RemoveRefLock(t) ==
  /\ hpc[t] = "rm_ref_lock"
  /\ ref_locked[FindBucket(hkey[t])] = 0
  /\ ref_locked' = [ref_locked EXCEPT ![FindBucket(hkey[t])] = t]
  /\ hpc' = [hpc EXCEPT ![t] = "rm_free"]
  /\ UNCHANGED <<buckets, bucket_state, map_len, hkey, hcur, hhead, it_idx, it_cur,
                 inserts, gone, want, ncalls>>
  /\ MapFrame

\* the value is read, the item freed, bucket.ref_locked.unlock_exclusive()
RemoveFree(t) ==
  /\ hpc[t] = "rm_free"
  /\ ref_locked' = [ref_locked EXCEPT ![FindBucket(hkey[t])] = 0]
  /\ hcur' = [hcur EXCEPT ![t] = 0]
  /\ hpc' = [hpc EXCEPT ![t] = "rm_unlock"]
  /\ UNCHANGED <<buckets, bucket_state, map_len, hkey, hhead, it_idx, it_cur,
                 inserts, gone, want, ncalls>>
  /\ MapFrame

\* -------------------------------------------------------------------- iter
\* iter(): the call of lock.lock_exclusive() is next
CallIter(t) ==
  /\ hpc[t] = "idle" /\ pc[t] = "idle" /\ holds[t] = "none"
  /\ ncalls[t] < MaxCalls
  /\ ncalls' = [ncalls EXCEPT ![t] = @ + 1]
  /\ hpc' = [hpc EXCEPT ![t] = "it_lock"]
  /\ UNCHANGED <<buckets, bucket_state, ref_locked, map_len, hkey, hcur, hhead,
                 it_idx, it_cur, inserts, gone, want>>
  /\ MapFrame

\* Iter::new, once lock_exclusive has returned: the Iter is handed to the caller
IterNew(t) ==
  /\ hpc[t] = "it_lock" /\ pc[t] = "idle" /\ holds[t] = "excl"
  /\ it_idx' = [it_idx EXCEPT ![t] = AdvanceBucket(0)[1]]
  /\ it_cur' = [it_cur EXCEPT ![t] = AdvanceBucket(0)[2]]
  /\ hpc' = [hpc EXCEPT ![t] = "it_live"]
  /\ UNCHANGED <<buckets, bucket_state, ref_locked, map_len, hkey, hcur, hhead,
                 inserts, gone, want, ncalls>>
  /\ MapFrame

\* Iterator::next with an item to give: it waits while the bucket's ref_locked is
\* held exclusively, reads item.next and advances. The read of an item that a
\* remove has freed meanwhile is undefined: any pointer may be found there
IterNext(t) ==
  /\ hpc[t] = "it_live"
  /\ it_idx[t] < NBuckets /\ it_cur[t] # 0
  /\ ref_locked[it_idx[t]] = 0
  /\ LET list == buckets[it_idx[t]]
         i == Find(list, it_cur[t])
         found == IF i = 0 THEN Keys \cup {0}
                  ELSE IF i = Len(list) THEN {0} ELSE {list[i + 1][1]} IN
     \E n \in found :
        IF n # 0
          THEN it_cur' = [it_cur EXCEPT ![t] = n] /\ UNCHANGED it_idx
          ELSE /\ it_idx' = [it_idx EXCEPT ![t] = AdvanceBucket(it_idx[t] + 1)[1]]
               /\ it_cur' = [it_cur EXCEPT ![t] = AdvanceBucket(it_idx[t] + 1)[2]]
  /\ UNCHANGED <<buckets, bucket_state, ref_locked, map_len, hpc, hkey, hcur, hhead,
                 inserts, gone, want, ncalls>>
  /\ MapFrame

\* Drop for Iter: the call of lock.unlock_exclusive() is next
IterDrop(t) ==
  /\ hpc[t] = "it_live"
  /\ hpc' = [hpc EXCEPT ![t] = "it_unlock"]
  /\ it_idx' = [it_idx EXCEPT ![t] = 0]
  /\ it_cur' = [it_cur EXCEPT ![t] = 0]
  /\ UNCHANGED <<buckets, bucket_state, ref_locked, map_len, hkey, hcur, hhead,
                 inserts, gone, want, ncalls>>
  /\ MapFrame

\* the map method returns once its unlock call has returned (or unwound)
MapReturn(t) ==
  /\ hpc[t] \in {"ins_unlock", "rm_unlock", "get_unlock", "it_unlock"}
  /\ pc[t] = "idle" /\ holds[t] = "none"
  /\ hpc' = [hpc EXCEPT ![t] = "idle"]
  /\ hkey' = [hkey EXCEPT ![t] = 0]
  /\ UNCHANGED <<buckets, bucket_state, ref_locked, map_len, hcur, hhead, it_idx,
                 it_cur, inserts, gone, want, ncalls>>
  /\ MapFrame

\* the calls the map methods make on the map-wide lock
MapLockCall(t) ==
  \/ hpc[t] \in {"ins_lock", "rm_lock"} /\ CallLockGroup(t)
  \/ hpc[t] \in {"ins_unlock", "rm_unlock"} /\ CallUnlockGroup(t)
  \/ hpc[t] = "it_lock" /\ CallLockExclusive(t)
  \/ hpc[t] = "it_unlock" /\ CallUnlockExclusive(t)

\* the keys used while the map is also iterated
IterKeys ==
  {MaxKeys}

\* one step of thread t in a program that inserts, removes and iterates
MapStep(t) ==
  \/ \E k \in IterKeys : CallInsert(t, k)
  \/ BucketLock(t)
  \/ InsertScan(t)
  \/ InsertStore(t)
  \/ InsertRelease(t)
  \/ InsertLen(t)
  \/ InsertUpdateLock(t)
  \/ InsertUpdateDrop(t)
  \/ InsertUpdateWrite(t)
  \/ \E k \in IterKeys : CallRemove(t, k)
  \/ RemoveScan(t)
  \/ RemoveLen(t)
  \/ RemoveRelease(t)
  \/ RemoveRefLock(t)
  \/ RemoveFree(t)
  \/ CallIter(t)
  \/ IterNew(t)
  \/ IterNext(t)
  \/ IterDrop(t)
  \/ MapReturn(t)
  \/ MapLockCall(t)
  \/ LockExclusiveSpin(t)
  \/ LockExclusiveLoad(t)
  \/ LockExclusiveCas(t)
  \/ SuspendCas(t)
  \/ SuspendPush(t)
  \/ SuspendRelease(t)
  \/ SuspendPark(t)
  \/ WakeCas(t)
  \/ WakePop(t)
  \/ WakeRelease(t)
  \/ WakeAllCas(t)
  \/ WakeAllPop(t)
  \/ WakeAllPreRelease(t)
  \/ WakeAllLoop(t)
  \/ WakeAllRelease(t)
  \/ LockGroupAdd(t)
  \/ LockGroupSpin(t)
  \/ LockGroupCas(t)
  \/ LockGroupRecheck(t)
  \/ UnlockGroupLoad(t)
  \/ UnlockGroupSub(t)
  \/ UnlockGroupStore(t)
  \/ UnlockExclusiveCas(t)
  \/ CatchUnwind(t)

NextMap ==
  \E t \in Threads : MapStep(t)

SpecMap ==
  Init /\ [][NextMap]_vars

\* the calls insert makes on the map-wide lock
InsertLockCall(t) ==
  \/ hpc[t] = "ins_lock" /\ CallLockGroup(t)
  \/ hpc[t] = "ins_unlock" /\ CallUnlockGroup(t)

\* one step of thread t in a program whose threads only insert. The map-wide lock
\* then has group users only: no lock_group fails often enough to reach suspend,
\* wake_all finds no handle to pop and no unlock panics, so those steps are left out
InsertStep(t) ==
  \/ \E k \in Keys : CallInsert(t, k)
  \/ BucketLock(t)
  \/ InsertScan(t)
  \/ InsertStore(t)
  \/ InsertRelease(t)
  \/ InsertLen(t)
  \/ InsertUpdateLock(t)
  \/ InsertUpdateDrop(t)
  \/ InsertUpdateWrite(t)
  \/ MapReturn(t)
  \/ InsertLockCall(t)
  \/ WakeCas(t)
  \/ WakePop(t)
  \/ WakeRelease(t)
  \/ WakeAllCas(t)
  \/ WakeAllPop(t)
  \/ WakeAllRelease(t)
  \/ LockGroupAdd(t)
  \/ LockGroupSpin(t)
  \/ LockGroupCas(t)
  \/ LockGroupRecheck(t)
  \/ UnlockGroupLoad(t)
  \/ UnlockGroupSub(t)
  \/ UnlockGroupStore(t)

NextInsert ==
  \E t \in Threads : InsertStep(t)

SpecInsert ==
  Init /\ [][NextInsert]_vars

\* ------------------------------------- get, get_mut and the value guards
\* what the methods of the map leave alone when they work with the value locks
GuardedFrame ==
  UNCHANGED <<mvars, rvars, pvars, gvars, avars, fvars, cvars>>

\* what the walk of get finds for key k: the value of its item, 0 if there is none
View(k) ==
  LET list == buckets[FindBucket(k)]
      i == Find(list, k) IN
  IF i = 0 THEN 0 ELSE list[i][2]

\* the call o(k) of thread t and the map it starts on
Snapshot(t, o, k) ==
  [op |-> o, key |-> k, by |-> t, view |-> [j \in Keys |-> View(j)], len |-> map_len]

\* the threads that hold a guard on the item of key k that is linked now
Holders(k) ==
  {u \in Threads : hguard[u].kind # "none" /\ hguard[u].key = k}
    \ UNION {hvict[u] : u \in {w \in Threads : hpc[w] \in {"rm_len", "rm_release",
                                                         "rm_ref_lock", "rm_ref"}}}

\* the calls of the map: find_bucket, then the call of lock.lock_group() is next
LockPc(o) ==
  CASE o = "insert" -> "ins_lock"
    [] o = "remove" -> "rm_lock"
    [] o = "get" -> "get_lock"
    [] OTHER -> "gm_lock"

\* insert(k, t), remove(&k), get(&k) or get_mut(&k) is called by thread t
GuardedCall(t, o, k, s) ==
  /\ hpc[t] = "idle" /\ pc[t] = "idle" /\ holds[t] = "none" /\ rlpc[t] = "idle"
  /\ ncalls[t] < MaxCalls
  /\ o = "insert" => inserts[k] < MaxInserts
  /\ ncalls' = [ncalls EXCEPT ![t] = @ + 1]
  /\ hpc' = [hpc EXCEPT ![t] = LockPc(o)]
  /\ hkey' = [hkey EXCEPT ![t] = k]
  /\ inserts' = IF o = "insert" THEN [inserts EXCEPT ![k] = @ + 1] ELSE inserts
  /\ want' = IF o = "insert" THEN [want EXCEPT ![k] = t] ELSE want
  /\ gone' = IF o = "remove" THEN [gone EXCEPT ![k] = TRUE] ELSE gone
  /\ hret' = [hret EXCEPT ![t] = None]
  /\ snap' = s
  /\ UNCHANGED <<buckets, bucket_state, ref_locked, map_len, hcur, hhead, it_idx, it_cur>>
  /\ UNCHANGED <<rl_state, rl_locked, rlpc, hguard, hvict>>
  /\ GuardedFrame

\* ---------------------------------------------- the Mutex of a bucket
\* Bucket.ref_locked is a Mutex of its own. Its methods are the ones of mutex.rs,
\* taken here without the parking containers: a thread that fails goes round its
\* loop again, and the wake calls, which touch no state word, are left out
\* ref_locked.lock_group()
RefLockGroupStep(t) ==
  /\ rlpc[t] \in {"lg_add", "lg_spin", "lg_dcas", "lg_cas", "lg_recheck"}
  /\ LET b == FindBucket(hkey[t]) IN
     CASE rlpc[t] = "lg_add" ->
            /\ rl_locked' = [rl_locked EXCEPT ![b] = WrapAdd(@, 1)]
            /\ rlpc' = [rlpc EXCEPT ![t] = "lg_spin"]
            /\ UNCHANGED rl_state
       [] rlpc[t] = "lg_spin" ->
            /\ rlpc' = [rlpc EXCEPT ![t] = GroupBranch(rl_state[b])]
            /\ UNCHANGED <<rl_state, rl_locked>>
       [] rlpc[t] = "lg_recheck" ->
            /\ rlpc' = [rlpc EXCEPT ![t] = "idle"]
            /\ UNCHANGED <<rl_state, rl_locked>>
       [] OTHER ->
            /\ IF CasOk(rl_state[b], IF rlpc[t] = "lg_dcas" THEN DIRTY ELSE UNLOCKED)
                 THEN /\ rl_state' = [rl_state EXCEPT ![b] = LOCKED_GROUP]
                      /\ rlpc' = [rlpc EXCEPT ![t] = "idle"]
                 ELSE /\ rlpc' = [rlpc EXCEPT ![t] = "lg_spin"]
                      /\ UNCHANGED rl_state
            /\ UNCHANGED rl_locked
  /\ UNCHANGED <<hguard, hret, hvict, snap>>
  /\ UNCHANGED hvars /\ GuardedFrame

\* ref_locked.lock_exclusive()
RefLockExclusiveStep(t) ==
  /\ rlpc[t] \in {"le_spin", "le_load", "le_dcas", "le_cas"}
  /\ LET b == FindBucket(hkey[t]) IN
     CASE rlpc[t] = "le_spin" ->
            /\ rlpc' = [rlpc EXCEPT ![t] = ExclusiveBranch(rl_state[b])]
            /\ UNCHANGED rl_state
       [] rlpc[t] = "le_load" ->
            /\ rlpc' = [rlpc EXCEPT ![t] = IF rl_locked[b] = 0 THEN "le_dcas" ELSE "le_spin"]
            /\ UNCHANGED rl_state
       [] OTHER ->
            IF CasOk(rl_state[b], IF rlpc[t] = "le_dcas" THEN DIRTY ELSE UNLOCKED)
              THEN /\ rl_state' = [rl_state EXCEPT ![b] = LOCKED]
                   /\ rlpc' = [rlpc EXCEPT ![t] = "idle"]
              ELSE /\ rlpc' = [rlpc EXCEPT ![t] = "le_spin"]
                   /\ UNCHANGED rl_state
  /\ UNCHANGED <<rl_locked, hguard, hret, hvict, snap>>
  /\ UNCHANGED hvars /\ GuardedFrame

\* ref_locked.unlock_group()
RefUnlockGroupStep(t) ==
  /\ rlpc[t] \in {"ug_load", "ug_sub", "ug_store"}
  /\ LET b == FindBucket(hkey[t]) IN
     CASE rlpc[t] = "ug_load" ->
            /\ rlpc' = [rlpc EXCEPT ![t] = IF UnlockGroupAllowed(rl_state[b])
                                            THEN "ug_sub" ELSE "panicked"]
            /\ UNCHANGED <<rl_state, rl_locked>>
       [] rlpc[t] = "ug_sub" ->
            /\ rl_locked' = [rl_locked EXCEPT ![b] = WrapSub(@, 1)]
            /\ rlpc' = [rlpc EXCEPT ![t] = IF rl_locked[b] = 1 THEN "ug_store" ELSE "idle"]
            /\ UNCHANGED rl_state
       [] OTHER ->
            /\ rl_state' = [rl_state EXCEPT ![b] = DIRTY]
            /\ rlpc' = [rlpc EXCEPT ![t] = "idle"]
            /\ UNCHANGED rl_locked
  /\ UNCHANGED <<hguard, hret, hvict, snap>>
  /\ UNCHANGED hvars /\ GuardedFrame

\* ref_locked.unlock_exclusive()
RefUnlockExclusiveStep(t) ==
  /\ rlpc[t] = "ue_cas"
  /\ LET b == FindBucket(hkey[t]) IN
     IF UnlockExclusiveOk(rl_state[b])
       THEN /\ rl_state' = [rl_state EXCEPT ![b] = UNLOCKED]
            /\ rlpc' = [rlpc EXCEPT ![t] = "idle"]
       ELSE /\ rlpc' = [rlpc EXCEPT ![t] = "panicked"]
            /\ UNCHANGED rl_state
  /\ UNCHANGED <<rl_locked, hguard, hret, hvict, snap>>
  /\ UNCHANGED hvars /\ GuardedFrame

\* --------------------------------------------------------- get, get_mut
\* the walk that looks for the key; if it is found, the call of
\* bucket.ref_locked.lock_group() (get) or lock_exclusive() (get_mut) is next
GetScan(t) ==
  /\ hpc[t] \in {"get_scan", "gm_scan"}
  /\ IF Find(buckets[FindBucket(hkey[t])], hkey[t]) # 0
       THEN /\ hcur' = [hcur EXCEPT ![t] = hkey[t]]
            /\ hpc' = [hpc EXCEPT ![t] = IF hpc[t] = "get_scan" THEN "get_ref" ELSE "gm_ref"]
            /\ rlpc' = [rlpc EXCEPT ![t] = IF hpc[t] = "get_scan" THEN "lg_add" ELSE "le_spin"]
       ELSE /\ hpc' = [hpc EXCEPT ![t] = "get_none"]
            /\ UNCHANGED <<hcur, rlpc>>
  /\ UNCHANGED <<buckets, bucket_state, ref_locked, map_len, hkey, hhead, it_idx, it_cur,
                 inserts, gone, want, ncalls>>
  /\ UNCHANGED <<rl_state, rl_locked, hguard, hret, hvict, snap>>
  /\ GuardedFrame

\* the lock call has returned: WatchGuardRef::new / WatchGuardMut::new on the
\* value of the item, bucket.release(); the call of lock.unlock_group() is next
GetGuard(t) ==
  /\ hpc[t] \in {"get_ref", "gm_ref"} /\ rlpc[t] = "idle"
  /\ hguard' = [hguard EXCEPT ![t] = [kind |-> IF hpc[t] = "get_ref" THEN "ref" ELSE "mut",
                                      key |-> hcur[t]]]
  /\ hret' = [hret EXCEPT ![t] = Some(View(hcur[t]))]
  /\ bucket_state' = [bucket_state EXCEPT ![FindBucket(hkey[t])] = BUCKET_AVAILABLE]
  /\ hcur' = [hcur EXCEPT ![t] = 0]
  /\ hpc' = [hpc EXCEPT ![t] = "get_unlock"]
  /\ UNCHANGED <<buckets, ref_locked, map_len, hkey, hhead, it_idx, it_cur,
                 inserts, gone, want, ncalls>>
  /\ UNCHANGED <<rl_state, rl_locked, rlpc, hvict, snap>>
  /\ GuardedFrame

\* the walk ended at null: bucket.release(); None once lock.unlock_group() is done
GetNone(t) ==
  /\ hpc[t] = "get_none"
  /\ bucket_state' = [bucket_state EXCEPT ![FindBucket(hkey[t])] = BUCKET_AVAILABLE]
  /\ hpc' = [hpc EXCEPT ![t] = "get_unlock"]
  /\ UNCHANGED <<buckets, ref_locked, map_len, hkey, hcur, hhead, it_idx, it_cur,
                 inserts, gone, want, ncalls>>
  /\ UNCHANGED kvars
  /\ GuardedFrame

\* Drop for WatchGuardRef: the guard's lock.unlock_group() is called
WatchGuardRefDrop(t) ==
  /\ hpc[t] = "idle" /\ rlpc[t] = "idle" /\ hguard[t].kind = "ref"
  /\ hpc' = [hpc EXCEPT ![t] = "drop"]
  /\ hkey' = [hkey EXCEPT ![t] = hguard[t].key]
  /\ rlpc' = [rlpc EXCEPT ![t] = "ug_load"]
  /\ hguard' = [hguard EXCEPT ![t] = NoGuard]
  /\ hvict' = [u \in Threads |-> hvict[u] \ {t}]
  /\ UNCHANGED <<buckets, bucket_state, ref_locked, map_len, hcur, hhead, it_idx, it_cur,
                 inserts, gone, want, ncalls>>
  /\ UNCHANGED <<rl_state, rl_locked, hret, snap>>
  /\ GuardedFrame

\* Drop for WatchGuardMut: the guard's lock.unlock_exclusive() is called
BucketGuardMutDrop(t) ==
  /\ hpc[t] = "idle" /\ rlpc[t] = "idle" /\ hguard[t].kind = "mut"
  /\ hpc' = [hpc EXCEPT ![t] = "drop"]
  /\ hkey' = [hkey EXCEPT ![t] = hguard[t].key]
  /\ rlpc' = [rlpc EXCEPT ![t] = "ue_cas"]
  /\ hguard' = [hguard EXCEPT ![t] = NoGuard]
  /\ hvict' = [u \in Threads |-> hvict[u] \ {t}]
  /\ UNCHANGED <<buckets, bucket_state, ref_locked, map_len, hcur, hhead, it_idx, it_cur,
                 inserts, gone, want, ncalls>>
  /\ UNCHANGED <<rl_state, rl_locked, hret, snap>>
  /\ GuardedFrame

\* the unlock call of the guard has returned: the drop is over
GuardDropped(t) ==
  /\ hpc[t] = "drop" /\ rlpc[t] = "idle"
  /\ hpc' = [hpc EXCEPT ![t] = "idle"]
  /\ hkey' = [hkey EXCEPT ![t] = 0]
  /\ UNCHANGED <<buckets, bucket_state, ref_locked, map_len, hcur, hhead, it_idx, it_cur,
                 inserts, gone, want, ncalls>>
  /\ UNCHANGED kvars
  /\ GuardedFrame

\* ------------------------------------------- remove with the value lock
\* the walk with prev and cur and the unlink of the item found; cur keeps the item
RemoveUnlink(t) ==
  /\ hpc[t] = "rm_scan"
  /\ LET b == FindBucket(hkey[t])
         i == Find(buckets[b], hkey[t]) IN
     IF i # 0
       THEN /\ buckets' = [buckets EXCEPT ![b] = Unlink(@, i)]
            /\ hcur' = [hcur EXCEPT ![t] = hkey[t]]
            /\ hhead' = [hhead EXCEPT ![t] = <<buckets[b][i]>>]
            /\ hvict' = [hvict EXCEPT ![t] = Holders(hkey[t])]
            /\ hpc' = [hpc EXCEPT ![t] = "rm_len"]
       ELSE /\ hpc' = [hpc EXCEPT ![t] = "rm_release"]
            /\ UNCHANGED <<buckets, hcur, hhead, hvict>>
  /\ UNCHANGED <<bucket_state, ref_locked, map_len, hkey, it_idx, it_cur,
                 inserts, gone, want, ncalls>>
  /\ UNCHANGED <<rl_state, rl_locked, rlpc, hguard, hret, snap>>
  /\ GuardedFrame

\* bucket.ref_locked.lock_exclusive() is called
RemoveRefCall(t) ==
  /\ hpc[t] = "rm_ref_lock"
  /\ rlpc' = [rlpc EXCEPT ![t] = "le_spin"]
  /\ hpc' = [hpc EXCEPT ![t] = "rm_ref"]
  /\ UNCHANGED <<buckets, bucket_state, ref_locked, map_len, hkey, hcur, hhead, it_idx,
                 it_cur, inserts, gone, want, ncalls>>
  /\ UNCHANGED <<rl_state, rl_locked, hguard, hret, hvict, snap>>
  /\ GuardedFrame

\* the lock call has returned: the value is read out of the item, the item is
\* freed, bucket.ref_locked.unlock_exclusive() is called
RemoveTake(t) ==
  /\ hpc[t] = "rm_ref" /\ rlpc[t] = "idle"
  /\ hret' = [hret EXCEPT ![t] = Some(hhead[t][1][2])]
  /\ hhead' = [hhead EXCEPT ![t] = <<>>]
  /\ hvict' = [hvict EXCEPT ![t] = {}]
  /\ rlpc' = [rlpc EXCEPT ![t] = "ue_cas"]
  /\ hpc' = [hpc EXCEPT ![t] = "rm_unref"]
  /\ UNCHANGED <<buckets, bucket_state, ref_locked, map_len, hkey, hcur, it_idx,
                 it_cur, inserts, gone, want, ncalls>>
  /\ UNCHANGED <<rl_state, rl_locked, hguard, snap>>
  /\ GuardedFrame

\* the unlock call has returned; the call of lock.unlock_group() is next
RemoveUnref(t) ==
  /\ hpc[t] = "rm_unref" /\ rlpc[t] = "idle"
  /\ hcur' = [hcur EXCEPT ![t] = 0]
  /\ hpc' = [hpc EXCEPT ![t] = "rm_unlock"]
  /\ UNCHANGED <<buckets, bucket_state, ref_locked, map_len, hkey, hhead, it_idx,
                 it_cur, inserts, gone, want, ncalls>>
  /\ UNCHANGED kvars
  /\ GuardedFrame

\* ------------------------------------ the update of insert with the value lock
\* the key exists: bucket.ref_locked.lock_exclusive() is called
InsertUpdateRefCall(t) ==
  /\ hpc[t] = "ins_upd_lock"
  /\ rlpc' = [rlpc EXCEPT ![t] = "le_spin"]
  /\ hvict' = [hvict EXCEPT ![t] = Holders(hkey[t])]
  /\ hpc' = [hpc EXCEPT ![t] = "ins_upd_ref"]
  /\ UNCHANGED <<buckets, bucket_state, ref_locked, map_len, hkey, hcur, hhead, it_idx,
                 it_cur, inserts, gone, want, ncalls>>
  /\ UNCHANGED <<rl_state, rl_locked, hguard, hret, snap>>
  /\ GuardedFrame

\* the lock call has returned: ManuallyDrop::drop(&mut (*cur).value), then
\* bucket.ref_locked.unlock_exclusive() is called
InsertUpdateDestroy(t) ==
  /\ hpc[t] = "ins_upd_ref" /\ rlpc[t] = "idle"
  /\ buckets' = [buckets EXCEPT ![FindBucket(hkey[t])] = SetValue(@, hcur[t], 0)]
  /\ hvict' = [hvict EXCEPT ![t] = {}]
  /\ rlpc' = [rlpc EXCEPT ![t] = "ue_cas"]
  /\ hpc' = [hpc EXCEPT ![t] = "ins_upd_unref"]
  /\ UNCHANGED <<bucket_state, ref_locked, map_len, hkey, hcur, hhead, it_idx,
                 it_cur, inserts, gone, want, ncalls>>
  /\ UNCHANGED <<rl_state, rl_locked, hguard, hret, snap>>
  /\ GuardedFrame

\* the unlock call has returned; the write of the new value is next
InsertUpdateUnref(t) ==
  /\ hpc[t] = "ins_upd_unref" /\ rlpc[t] = "idle"
  /\ hpc' = [hpc EXCEPT ![t] = "ins_upd_write"]
  /\ UNCHANGED <<buckets, bucket_state, ref_locked, map_len, hkey, hcur, hhead, it_idx,
                 it_cur, inserts, gone, want, ncalls>>
  /\ UNCHANGED kvars
  /\ GuardedFrame

\* the calls insert, remove, get and get_mut make on the map-wide lock
GuardedLockCall(t) ==
  \/ hpc[t] \in {"ins_lock", "rm_lock", "get_lock", "gm_lock"} /\ CallLockGroup(t)
  \/ hpc[t] \in {"ins_unlock", "rm_unlock", "get_unlock"} /\ CallUnlockGroup(t)

\* the steps inside the methods of the map and of its guards, when every call on
\* the map-wide lock finds it free or dirty: the map-wide lock has group users
\* only, so no lock_group fails often enough to reach suspend
SoloWork(t) ==
  \/ BucketLock(t)
  \/ InsertScan(t)
  \/ InsertStore(t)
  \/ InsertRelease(t)
  \/ InsertLen(t)
  \/ InsertUpdateRefCall(t)
  \/ InsertUpdateDestroy(t)
  \/ InsertUpdateUnref(t)
  \/ InsertUpdateWrite(t)
  \/ RemoveUnlink(t)
  \/ RemoveLen(t)
  \/ RemoveRelease(t)
  \/ RemoveRefCall(t)
  \/ RemoveTake(t)
  \/ RemoveUnref(t)
  \/ GetScan(t)
  \/ GetGuard(t)
  \/ GetNone(t)
  \/ GuardDropped(t)
  \/ MapReturn(t)
  \/ GuardedLockCall(t)
  \/ RefLockGroupStep(t)
  \/ RefLockExclusiveStep(t)
  \/ RefUnlockGroupStep(t)
  \/ RefUnlockExclusiveStep(t)
  \/ WakeCas(t)
  \/ WakePop(t)
  \/ WakeRelease(t)
  \/ WakeAllCas(t)
  \/ WakeAllPop(t)
  \/ WakeAllRelease(t)
  \/ LockGroupAdd(t)
  \/ LockGroupSpin(t)
  \/ LockGroupCas(t)
  \/ UnlockGroupLoad(t)
  \/ UnlockGroupSub(t)
  \/ UnlockGroupStore(t)

\* the same steps among concurrent calls: lock_group may find the group running
MapWork(t) ==
  \/ SoloWork(t)
  \/ LockGroupRecheck(t)

\* no other thread is inside a call or holds a guard, and thread t holds none
Alone(t) ==
  /\ hguard[t] = NoGuard
  /\ \A u \in Threads \ {t} : hpc[u] = "idle" /\ hguard[u] = NoGuard

Ops ==
  {"insert", "remove", "get", "get_mut"}

\* one step of thread t in a program that runs one call at a time and drops the
\* guard a call returned before the next call
SoloStep(t) ==
  \/ Alone(t) /\ \E o \in Ops, k \in Keys : GuardedCall(t, o, k, Snapshot(t, o, k))
  \/ WatchGuardRefDrop(t)
  \/ BucketGuardMutDrop(t)
  \/ SoloWork(t)

NextSolo ==
  \E t \in Threads : SoloStep(t)

\* the threads use one map in turn, from AtomicHashMap::with_capacity(NBuckets)
SpecSolo ==
  Init /\ [][NextSolo]_vars

\* the keys of one bucket
GuardKeys ==
  {1, 1 + NBuckets}

\* the map after insert(1, 1) and insert(1 + NBuckets, 1) have returned: both items
\* are in one bucket, the map-wide lock was taken and given back in group mode
InitFilled ==
  /\ RefInit
  /\ PayloadInit("i32", 0)
  /\ GuardInit
  /\ VecInit
  /\ GuardsInit
  /\ state = DIRTY
  /\ locked = 0
  /\ wake_deadlock = UNLOCKED
  /\ parking_e = <<>>
  /\ parking_g = <<>>
  /\ token = [t \in Threads |-> FALSE]
  /\ pc = [t \in Threads |-> "idle"]
  /\ op = [t \in Threads |-> "none"]
  /\ wtype = [t \in Threads |-> Exclusive]
  /\ res = [t \in Threads |-> FALSE]
  /\ step = [t \in Threads |-> 0]
  /\ holds = [t \in Threads |-> "none"]
  /\ calm = [t \in Threads |-> FALSE]
  /\ misuses = 0
  /\ buckets = [b \in Buckets |-> IF b = FindBucket(1)
                                    THEN <<<<1 + NBuckets, 1>>, <<1, 1>>>> ELSE <<>>]
  /\ bucket_state = [b \in Buckets |-> BUCKET_AVAILABLE]
  /\ ref_locked = [b \in Buckets |-> 0]
  /\ map_len = 2
  /\ hpc = [t \in Threads |-> "idle"]
  /\ hkey = [t \in Threads |-> 0]
  /\ hcur = [t \in Threads |-> 0]
  /\ it_idx = [t \in Threads |-> 0]
  /\ it_cur = [t \in Threads |-> 0]
  /\ hhead = [t \in Threads |-> <<>>]
  /\ inserts = [k \in Keys |-> IF k \in GuardKeys THEN 1 ELSE 0]
  /\ gone = [k \in Keys |-> FALSE]
  /\ want = [k \in Keys |-> IF k \in GuardKeys THEN 1 ELSE 0]
  /\ ncalls = [t \in Threads |-> 0]

\* one step of thread t in a program whose threads call the map for one key at
\* will and keep the guards as long as they like
GuardedStep(t) ==
  \/ \E o \in Ops : GuardedCall(t, o, 1, NoSnap)
  \/ WatchGuardRefDrop(t)
  \/ BucketGuardMutDrop(t)
  \/ MapWork(t)

NextGuarded ==
  \E t \in Threads : GuardedStep(t)

\* the threads share a map that holds two keys of one bucket
SpecGuarded ==
  InitFilled /\ [][NextGuarded]_vars

\* the calls of a program in which the first thread takes a guard for the key 1
\* and every thread then works on the other key of that bucket
HoldCalls(t) ==
  IF t = 1 /\ ncalls[t] = 0 THEN {"get", "get_mut"} \X {1}
  ELSE {"insert", "get_mut", "remove"} \X {1 + NBuckets}

HoldStep(t) ==
  \/ \E c \in HoldCalls(t) : GuardedCall(t, c[1], c[2], NoSnap)
  \/ WatchGuardRefDrop(t)
  \/ BucketGuardMutDrop(t)
  \/ MapWork(t)

NextHold ==
  \E t \in Threads : HoldStep(t)

\* that program under a scheduler that lets every thread inside a call take its
\* next step; when a guard is dropped is up to the program
SpecHold ==
  InitFilled /\ [][NextHold]_vars /\ \A t \in Threads : WF_vars(MapWork(t))

\* ------------------------------------------------------------ claims
\* C1: cross-mode exclusion: no thread is inside an exclusive critical section
\* while another thread is inside a group critical section.
C1_CrossModeExclusion ==
  \A t \in Threads, u \in Threads :
    ~(holds[t] = "excl" /\ holds[u] = "group")

\* C2: at most one exclusive holder: no two threads are at once between a
\* returned lock_exclusive and their own unlock_exclusive.
C2_AtMostOneExclusive ==
  \A t \in Threads, u \in Threads :
    (holds[t] = "excl" /\ holds[u] = "excl") => t = u

\* C3: no lost wake-up: a thread never stays parked while the mutex is free.
\* Stated on the states in which nothing is left to wake it: it is parked with
\* no token pending, no thread holds the mutex and no other thread is inside a
\* call, so every acquirer has released and no release is to come.
C3_NoLostWakeup ==
  \A t \in Threads :
    ~(/\ pc[t] = "su_park" /\ ~token[t]
      /\ \A u \in Threads \ {t} : pc[u] = "idle" /\ holds[u] = "none")

\* C4: group concurrency: a lock_group whose spin finds the mutex in
\* LOCKED_GROUP takes the joining arm and returns as a group holder after its
\* own steps only; it never snoozes, suspends or retries, so it does not wait
\* for a holder's unlock_group.
C4_GroupJoinsWithoutWaiting ==
  [][\A t \in Threads :
       /\ (pc[t] = "lg_spin" /\ state = LOCKED_GROUP /\ pc'[t] # pc[t])
            => pc'[t] = "lg_recheck"
       /\ (pc[t] = "lg_recheck" /\ pc'[t] # pc[t])
            => \/ pc'[t] = "wk_cas" /\ wtype'[t] = Group
               \/ pc'[t] = "idle" /\ holds'[t] = "group"
       /\ (op[t] = "lock_group" /\ pc[t] \in {"wk_cas", "wk_pop", "wk_rel"}
             /\ pc'[t] # pc[t])
            => \/ pc'[t] \in {"wk_pop", "wk_rel"}
               \/ pc'[t] = "idle" /\ holds'[t] = "group"]_vars

\* C4 witness: two threads are inside a group critical section at once.
C4_TwoGroupHolders ==
  \E t \in Threads, u \in Threads :
    t # u /\ holds[t] = "group" /\ holds[u] = "group" /\ state = LOCKED_GROUP
      /\ locked = 2

\* C5: unlock_exclusive on a mutex that is not in state LOCKED panics and
\* leaves the state word, the group counter, both parking queues and every
\* park token as they were.
C5_UnlockExclusivePanics ==
  [][\A t \in Threads :
       (pc[t] = "ue_cas" /\ state # LOCKED /\ pc'[t] # pc[t])
         => /\ pc'[t] = "panicked"
            /\ UNCHANGED <<state, locked, parking_e, parking_g, token,
                           wake_deadlock>>]_vars

\* C5 witness: unlock_exclusive has panicked on a mutex left DIRTY by a group.
C5_PanickedOnDirty ==
  \E t \in Threads :
    pc[t] = "panicked" /\ op[t] = "unlock_exclusive" /\ state = DIRTY
      /\ \A u \in Threads : holds[u] = "none"

\* C6: unlock_group entered with a zero group counter panics at its state
\* check, leaving the state word and the counter unchanged.
C6_UnlockGroupZeroPanics ==
  [][\A t \in Threads :
       (pc[t] = "ug_load" /\ locked = 0 /\ pc'[t] # pc[t])
         => pc'[t] = "panicked" /\ UNCHANGED <<state, locked>>]_vars

\* C7: try_lock_exclusive agrees with lock_exclusive: run with no concurrent
\* step on a mutex nobody holds it returns true; run while another thread holds
\* the mutex (either mode) it returns false.
C7_TryLockAgrees ==
  \A t \in Threads :
    (pc[t] = "tl_ret" /\ calm[t] /\ \A u \in Threads \ {t} : pc[u] = "idle")
      => IF \A u \in Threads : holds[u] = "none"
           THEN res[t] = TRUE /\ state = LOCKED
           ELSE res[t] = FALSE

\* C8: strong-count conservation: strong equals the number of live AnyRef
\* handles of the cell, in every interleaving of clones, drops, upgrades and
\* try_unwrap (each clone adds exactly 1, each drop removes exactly 1).
C8_StrongCountIsHandles ==
  strong = StrongHandles

\* C8 witness: after clones on both threads a drop has just taken strong from 3 to 2.
C8_DropAfterClones ==
  \E t \in Threads, u \in Threads :
    /\ t # u /\ rpc[t] = "ds_check" /\ reg[t] = 3 /\ strong = 2
    /\ sh[t] > 0 /\ sh[u] > 0

\* C9: weak-count conservation: while a strong handle exists, the raw weak
\* counter is 1 plus the number of live WeakAnyRef handles, or it is the
\* sentinel that is_unique stores while no WeakAnyRef exists; either way
\* AnyRef::weak_count returns the number of live WeakAnyRef handles.
C9_WeakCountIsHandles ==
  StrongHandles > 0 =>
    /\ WeakCount(weak) = WeakHandles
    /\ weak # USIZE_MAX => weak = 1 + WeakHandles

\* C9 witness: is_unique holds the sentinel while another thread is inside downgrade.
C9_SentinelDuringDowngrade ==
  \E t \in Threads, u \in Threads :
    /\ rpc[t] = "iu_load" /\ weak = USIZE_MAX
    /\ rpc[u] = "dg_loop" /\ reg[u] = USIZE_MAX

\* C10: upgrade never resurrects: once strong is 0 it stays 0, and an upgrade
\* yields a handle only by a compare-and-increment from a value above 0, which
\* raises strong by exactly 1.
C10_UpgradeNeverResurrects ==
  [][/\ strong = 0 => strong' = 0
     /\ \A t \in Threads :
          (rpc[t] \in {"up_cas", "up_none"} /\ rpc'[t] = "idle")
            => IF sh'[t] > sh[t]
                 THEN strong > 0 /\ strong' = strong + 1 /\ sh'[t] = sh[t] + 1
                 ELSE strong = 0 /\ strong' = 0]_vars

\* C10 witness: an upgrade that raced with the final drop returns None: it read
\* strong above 0, lost its compare-and-increment, and finds strong 0.
C10_UpgradeNoneAfterRace ==
  \E t \in Threads :
    rpc[t] = "up_none" /\ reg[t] = 0 /\ strong = 0 /\ wh[t] > 0 /\ dataDrops = 1


\* C11: the payload is destroyed exactly once over the life of a cell: its
\* destructor never runs a second time, it has run by the time the allocation is
\* freed, it runs only in the thread that moved strong from 1 to 0 (no other
\* strong drop and no weak drop runs it), and no strong handle exists afterwards.
C11_PayloadDestroyedOnce ==
  [][/\ dataDrops' <= 1
     /\ freed' => dataDrops' >= 1
     /\ dataDrops' # dataDrops =>
          \E t \in Threads :
            \/ rpc[t] = "ds_payload" /\ reg[t] = 1 /\ rpc'[t] # rpc[t]
            \/ rpc[t] = "tu_read" /\ rpc'[t] # rpc[t]
            \/ unwrapped[t] /\ ~unwrapped'[t]
     /\ dataDrops' > 0 => StrongHandles' = 0]_vars

\* C12: the allocation is freed exactly once, by the decrement that takes the raw
\* weak counter from 1 to 0, only when strong is 0 and no AnyRef or WeakAnyRef
\* handle is left; once it is freed no thread is at a step that reads or writes a
\* field of the cell, and no counter changes again.
C12_FreedOnceAfterAllHandles ==
  [][/\ \A t \in Threads :
          (rpc'[t] = "wd_free" /\ rpc[t] # "wd_free") => (weak = 1 /\ weak' = 0)
     /\ \A t \in Threads, u \in Threads :
          (rpc'[t] = "wd_free" /\ rpc'[u] = "wd_free") => t = u
     /\ (freed' /\ ~freed) =>
          /\ \E t \in Threads : rpc[t] = "wd_free" /\ rpc'[t] = "idle"
          /\ weak = 0 /\ strong = 0
          /\ StrongHandles = 0 /\ WeakHandles = 0
     /\ freed =>
          /\ \A t \in Threads :
               rpc[t] \notin {"ds_payload", "wd_sub", "wd_free", "dg_loop", "up_cas",
                              "iu_load", "iu_store", "tu_read"}
          /\ UNCHANGED <<strong, weak, freed, sh, wh>>]_vars

\* a WeakAnyRef outlives the last AnyRef; its drop takes weak from 1 to 0 and is
\* about to free the allocation
C12_LastWeakFrees ==
  \E t \in Threads :
    /\ rpc[t] = "wd_free" /\ reg[t] = 0
    /\ \A u \in Threads : ~unwrapped[u]
    /\ strong = 0 /\ weak = 0 /\ dataDrops = 1
    /\ WeakHandles = 0 /\ ~freed

\* C13: guard exclusivity: at most one WatchGuardMut of the cell is live over all
\* clones and threads; a try_downcast_mut that has got the lock (and is about to
\* return its guard) finds no other guard live; and no increment written through
\* a guard is lost: the payload equals the number of increments written.
C13_GuardExclusivity ==
  /\ \A t \in Threads, u \in Threads : (guard[t] /\ guard[u]) => t = u
  /\ \A t \in Threads :
       (gpc[t] = "dm_lock" /\ holds[t] = "excl") =>
         \A u \in Threads \ {t} : ~guard[u] /\ holds[u] # "excl"
  /\ data = updates

\* a thread updates the payload through its guard while another thread, asking
\* for a guard on its own clone, is parked, after an earlier update
C13_WaiterParkedBehindGuard ==
  \E t \in Threads, u \in Threads :
    /\ t # u
    /\ guard[t] /\ gpc[t] = "g_write"
    /\ gpc[u] = "dm_lock" /\ pc[u] = "su_park"
    /\ updates >= 1

\* C14: guard release: the drop of a guard releases the embedded mutex exactly
\* once (its unlock_exclusive finds LOCKED, stores UNLOCKED and never panics);
\* when no guard is live and no other thread is inside a call, is_locked returns
\* false, and a lock_exclusive / downcast_mut started then takes the lock on
\* its first attempt without snoozing or parking.
C14_GuardRelease ==
  [][\A t \in Threads :
       LET quiet == /\ calm[t]
                    /\ \A u \in Threads : ~guard[u] /\ holds[u] = "none"
                    /\ \A u \in Threads \ {t} : pc[u] = "idle"
       IN /\ pc'[t] # "panicked"
          /\ (pc[t] = "ue_cas" /\ pc'[t] # pc[t]) =>
               (state = LOCKED /\ state' = UNLOCKED)
          /\ (pc[t] = "il_ret" /\ quiet) => ~res[t]
          /\ (pc[t] = "le_spin" /\ quiet /\ pc'[t] # pc[t]) => pc'[t] = "le_cas"
          /\ (pc[t] = "le_cas" /\ quiet /\ pc'[t] # pc[t]) =>
               (pc'[t] = "idle" /\ holds'[t] = "excl" /\ state' = LOCKED)]_vars

\* after a guard was used and dropped, a lone is_locked call has its answer: false
C14_FreeAfterGuardDropped ==
  \E t \in Threads :
    /\ pc[t] = "il_ret" /\ ~res[t] /\ calm[t]
    /\ updates >= 1 /\ ref_count = 1
    /\ \A u \in Threads : ~guard[u] /\ holds[u] = "none" /\ gpc[u] = "idle"

\* C16: try_downcast_mut::<U> with U different from the stored type returns None
\* and touches nothing: from the call to the return the state word, the group
\* counter, the lock's reference count, the parking containers and the payload
\* are unchanged, and no guard (of this or another thread) is created or ended.
C16_MismatchTouchesNothing ==
  [][\A t \in Threads :
       /\ (gpc[t] = "idle" /\ gpc'[t] # "idle" /\ asked'[t] # type_id) =>
            /\ gpc'[t] = "dm_none"
            /\ UNCHANGED <<state, locked, ref_count, wake_deadlock, parking_e,
                           parking_g, data, guard, holds, strong, weak>>
       /\ (gpc[t] = "dm_none" /\ gpc'[t] # "dm_none") =>
            /\ gpc'[t] = "idle" /\ rval'[t] = None /\ ~guard'[t]
            /\ UNCHANGED <<state, locked, ref_count, wake_deadlock, parking_e,
                           parking_g, data, guard, holds, strong, weak>>]_vars

\* a mismatching call returns None while another thread holds a guard
C16_NoneBesideGuard ==
  \E t \in Threads, u \in Threads :
    /\ t # u
    /\ gpc[t] = "dm_none" /\ asked[t] # type_id
    /\ guard[u] /\ state = LOCKED /\ ref_count = 2

\* C17: try_unwrap succeeds exactly when strong is 1 at its compare-and-exchange.
\* A failing call changes neither counter nor the payload and hands the handle
\* back; a successful one takes strong from 1 to 0 and consumes the handle, the
\* implicit weak unit is released next, strong never leaves 0 again, so every
\* upgrade that reads it afterwards returns None, and no second call can succeed
\* on the cell.
C17_TryUnwrapOnlyWhenSole ==
  [][\A t \in Threads :
       LET calls   == rpc[t] = "idle" /\ rpc'[t] \in {"tu_read", "tu_err"}
           success == rpc[t] = "idle" /\ rpc'[t] = "tu_read"
           failure == rpc[t] = "idle" /\ rpc'[t] = "tu_err"
       IN  /\ calls => (success <=> strong = 1)
           /\ success =>
                /\ strong' = 0 /\ weak' = weak
                /\ sh'[t] = sh[t] - 1 /\ StrongHandles' = 0
                /\ dataDrops = 0
                /\ \A u \in Threads : ~unwrapped[u] /\ rpc[u] # "tu_read"
           /\ failure =>
                UNCHANGED <<strong, weak, sh, wh, data, type_id, dataDrops,
                            freed, unwrapped, ref_count>>
           /\ (rpc[t] = "tu_err" /\ rpc'[t] # "tu_err") =>
                /\ rpc'[t] = "idle" /\ sh'[t] = sh[t] /\ sh[t] > 0
                /\ UNCHANGED <<strong, weak, data, dataDrops, freed>>
           /\ (rpc[t] = "tu_read" /\ rpc'[t] # "tu_read") =>
                /\ rpc'[t] = "wd_sub" /\ unwrapped'[t] /\ strong' = 0
           /\ (rpc[t] = "wd_sub" /\ rpc'[t] # "wd_sub") =>
                weak' = weak - 1
           /\ strong = 0 => strong' = 0
           /\ (rpc[t] \in {"idle", "up_cas"} /\ rpc'[t] # rpc[t]
                 /\ wh[t] > 0 /\ strong = 0 /\ sh'[t] = sh[t] /\ wh'[t] = wh[t]
                 /\ rpc'[t] \in {"up_cas", "up_none", "idle"}) =>
                rpc'[t] = "up_none"]_vars

\* a thread holds the value it unwrapped, the cell is not freed because a
\* WeakAnyRef survives, and the upgrade of that WeakAnyRef is about to return None
C17_UnwrappedThenUpgradeNone ==
  \E t, u \in Threads :
    /\ t # u
    /\ unwrapped[t] /\ rpc[t] = "idle"
    /\ strong = 0 /\ weak = 1 /\ ~freed
    /\ wh[u] = 1 /\ rpc[u] = "up_none"

C15_ReadDowncastTypeSafe ==
  [][\A t \in Threads :
       LET inside(p) == p \in {"dr_valid", "dc_valid", "dr_ret", "dc_ret", "dc_panic"}
           returns(p) == p \in {"dr_ret", "dc_ret"}
       IN  /\ (rpc[t] = "idle" /\ inside(rpc'[t])) =>
                /\ (asked'[t] = type_id) <=> rpc'[t] \in {"dr_valid", "dc_valid"}
                /\ rval'[t] = None
           /\ (rpc[t] \in {"dr_valid", "dc_valid"} /\ rpc'[t] # rpc[t]) =>
                /\ asked[t] = type_id
                /\ rval'[t].some <=> strong > 0
                /\ rval'[t].some => rval'[t].val = data
                /\ rpc[t] = "dr_valid" => rpc'[t] = "dr_ret"
                /\ rpc[t] = "dc_valid" => (rval'[t].some <=> rpc'[t] = "dc_ret")
           /\ returns(rpc'[t]) =>
                /\ rval'[t].some => asked'[t] = type_id' /\ rval'[t].val = data'
                /\ asked'[t] # type_id' => rval'[t] = None
                /\ (sh'[t] > 0 /\ asked'[t] = type_id') => rval'[t] = Some(data')
           /\ rpc'[t] = "dc_ret" => rval'[t].some
           /\ rpc'[t] = "dc_panic" => rval'[t] = None
           /\ ((inside(rpc[t]) \/ inside(rpc'[t])) /\ rpc'[t] # rpc[t]) =>
                UNCHANGED <<strong, weak, sh, wh, state, locked, ref_count, data,
                            type_id, dataDrops, freed>>]_vars

\* try_downcast_ref::<String> on a cell built from a String returns its value
C15_SomeOfStoredType ==
  \E t \in Threads :
    /\ rpc[t] = "dr_ret" /\ sh[t] > 0
    /\ type_id = "String" /\ asked[t] = "String"
    /\ data = MaxValue /\ rval[t] = Some(MaxValue)

\* C19: into_raw followed by from_raw gives back a handle to the same cell:
\* into_raw gives up the handle without touching strong or weak, from_raw
\* rebuilds a handle to the cell the pointer came from without touching them,
\* so strong always counts the handles plus the raw pointers in flight, and a
\* downcast to the stored type through a handle returns the stored value.
C19_RawRoundTrip ==
  [][LET Raws == Cardinality({u \in Threads : raw'[u] # 0})
     IN  /\ wild' = 0
         /\ strong' = StrongHandles' + Raws
         /\ data' = data /\ type_id' = type_id
         /\ \A t \in Threads :
              /\ (raw[t] = 0 /\ raw'[t] # 0) =>
                   /\ sh'[t] = sh[t] - 1
                   /\ UNCHANGED <<strong, weak, dataDrops, ref_count>>
              /\ (raw[t] # 0 /\ raw'[t] = 0) =>
                   /\ sh'[t] = sh[t] + 1
                   /\ UNCHANGED <<strong, weak, dataDrops, ref_count>>
              /\ (rpc'[t] \in {"dr_ret", "dc_ret"} /\ sh'[t] > 0
                    /\ asked'[t] = type_id') =>
                   rval'[t] = Some(data')]_vars

\* the only handle went through into_raw and from_raw, and downcast_ref::<String>
\* through the rebuilt handle returns the String the cell was built with
C19_DowncastAfterRoundTrip ==
  \E t \in Threads :
    /\ rebuilt >= 1 /\ raw[t] = 0
    /\ strong = 1 /\ weak = 1 /\ sh[t] = 1
    /\ rpc[t] = "dc_ret" /\ asked[t] = "String" /\ type_id = "String"
    /\ data = MaxValue /\ rval[t] = Some(MaxValue)

\* C20: the AtomicVec is first in, first out for the pushes of one thread: of two
\* items pushed one after the other by the same thread, the later one is never
\* popped before the earlier one.
C20_PoppedInPushOrder ==
  \A i, j \in DOMAIN popped :
    (i < j /\ owner[popped[i]] = owner[popped[j]]) => popped[i] < popped[j]

\* C21: conservation in the AtomicVec. Every item whose push was called is in
\* exactly one place: still in the hand of its push, held by the container (linked
\* from the head or parked in the temp tail), or removed by a pop; no item is
\* removed twice, the linked list has no cycle and ends at the tail.
C21_ItemsConserved ==
  LET list     == ListFrom(head, MaxItems + 1)
      InList   == {list[k] : k \in DOMAIN list}
      Parked   == {t_tail} \ {0}
      InHand   == {vitem[t] : t \in {u \in Threads : vpc[u] \in {"p_cas", "p_lock", "p_tail"}}} \ {0}
      Returned == {popped[k] : k \in DOMAIN popped}
  IN  /\ Len(list) <= MaxItems
      /\ Cardinality(InList) = Len(list)
      /\ Cardinality(Returned) = Len(popped)
      /\ InList \cap Parked = {} /\ InList \cap InHand = {} /\ InList \cap Returned = {}
      /\ Parked \cap InHand = {} /\ Parked \cap Returned = {} /\ InHand \cap Returned = {}
      /\ InList \cup Parked \cup InHand \cup Returned = 1 .. made
      /\ (head = 0) <=> (tail = 0)
      /\ head # 0 => list[Len(list)] = tail /\ next[tail] = 0
      /\ \A t \in Threads :
           (vpc[t] \in {"or_swap", "or_store", "o_take"} /\ vitem[t] # 0) =>
             /\ vitem[t] \in Returned
             /\ \A u \in Threads :
                  (u # t /\ vpc[u] \in {"or_swap", "or_store", "o_take"}) => vitem[u] # vitem[t]

\* one item was popped, one is linked in the list and one is parked in the temp tail
C21_ListParkedAndPopped ==
  /\ made = MaxItems
  /\ Len(popped) = 1
  /\ head # 0 /\ head = tail
  /\ t_tail # 0
  /\ \A t \in Threads : vpc[t] = "idle"

C25_StateEdges ==
  [][state' # state =>
       /\ <<state, state'>> \in
            { <<UNLOCKED, LOCKED>>, <<LOCKED, UNLOCKED>>, <<UNLOCKED, LOCKED_GROUP>>,
              <<LOCKED_GROUP, DIRTY>>, <<DIRTY, LOCKED_GROUP>>, <<DIRTY, LOCKED>> }
       /\ state = LOCKED =>
            \E t \in DOMAIN pc : /\ op[t] = "unlock_exclusive"
                                 /\ pc[t] = "ue_cas" /\ pc'[t] # "ue_cas"]_vars


\* C26: the state word changes from DIRTY to LOCKED only at a moment when the
\* group counter is zero.
C26_DirtyToLockedOnlyAtZero ==
  [][(state = DIRTY /\ state' = LOCKED) => locked = 0]_vars


\* C28: the lock observers agree with the holders. An is_locked_exclusive call
\* that ran while every other thread stayed outside the mutex's methods answers true
\* exactly when some thread holds the mutex in exclusive mode, and such an
\* is_locked_group call answers true exactly when some thread holds it in
\* group mode.
C28_ObserversAgree ==
  \A t \in Threads :
    (pc[t] = "il_ret" /\ calm[t] /\ \A u \in Threads \ {t} : pc[u] = "idle") =>
      /\ op[t] = "is_locked_exclusive" => (res[t] <=> \E u \in Threads : holds[u] = "excl")
      /\ op[t] = "is_locked_group" => (res[t] <=> \E u \in Threads : holds[u] = "group")


\* C29: the parking guard wake_deadlock gives mutual exclusion: at most one
\* thread is between taking the guard and its own release of it in suspend, wake
\* or wake_all; no thread stores UNLOCKED into the guard while another thread is
\* there; and every push or pop on a parking container is a step of a thread
\* that holds the guard.
C29_GuardExclusion ==
  [][LET Held == {"su_push", "su_rel", "wk_pop", "wk_rel", "wa_pop", "wa_pre"}
         Stores == {"su_rel", "wk_rel", "wa_pre", "wa_rel"}
     IN /\ Cardinality({t \in DOMAIN pc : pc[t] \in Held}) <= 1
        /\ \A t \in DOMAIN pc :
             (pc[t] \in Stores /\ pc'[t] # pc[t]) =>
                \A u \in DOMAIN pc \ {t} : pc[u] \notin Held
        /\ (parking_e' # parking_e \/ parking_g' # parking_g) =>
             \E t \in DOMAIN pc : pc[t] \in Held /\ pc'[t] # pc[t]]_vars


\* C30: refcount overflow is fatal before the bound is passed: once every clone
\* that was called has returned or aborted, strong holds a value greater than
\* MAX_REFCOUNT only if the process has aborted; and the counter never wraps
\* around: it is never below the number of live handles.
C30_OverflowAborts ==
  /\ (strong > MAX_REFCOUNT /\ \A t \in Threads : rpc[t] = "idle") => aborted
  /\ strong >= StrongHandles


\* C27: starvation freedom of a queued exclusive waiter under fair scheduling:
\* if every group user calls lock_group again and again for ever (so each of them
\* holds the group lock only finitely long), the exclusive user, once its handle
\* is in the exclusive parking container, eventually holds the mutex in
\* exclusive mode.
C27_QueuedExclusiveAcquires ==
  (\A t \in Trio \ {1} : []<>(pc[t] = "lg_add")) =>
     ((\E i \in DOMAIN parking_e : parking_e[i] = 1) ~> (holds[1] = "excl"))


\* C23: iterator exclusion: while a thread owns a live Iter (from the return of
\* iter() to the drop of the Iter), no other thread is inside insert or remove
\* past its acquisition of the map-wide lock, and no step changes a bucket list
\* or len.
C23_IterExclusion ==
  [][\A t \in Threads :
       hpc[t] = "it_live" =>
         /\ \A u \in Threads \ {t} :
              ~ \/ hpc[u] \in {"ins_lock", "rm_lock", "ins_unlock", "rm_unlock"}
                     /\ pc[u] = "idle" /\ holds[u] = "group"
                \/ hpc[u] \in {"ins_scan", "ins_store", "ins_release", "ins_len",
                               "ins_upd_lock", "ins_upd_drop", "ins_upd_write",
                               "rm_scan", "rm_len", "rm_release", "rm_ref_lock", "rm_free"}
         /\ hpc'[t] = "it_live" => (buckets' = buckets /\ map_len' = map_len)]_vars


\* C22: concurrent map inserts: once every insert has returned, every key that
\* was inserted by exactly one call is stored exactly once over all buckets, in
\* the bucket find_bucket names, with the value given to that call (what get's
\* walk of the bucket finds), and if no key was inserted twice len equals the
\* number of keys inserted.
C22_InsertsAllStored ==
  (\A t \in Threads : hpc[t] = "idle") =>
    /\ \A k \in Keys :
         inserts[k] = 1 =>
           /\ Cardinality({<<b, i>> \in Buckets \X (1 .. MaxKeys) :
                             i <= Len(buckets[b]) /\ buckets[b][i][1] = k}) = 1
           /\ Find(buckets[FindBucket(k)], k) # 0
           /\ buckets[FindBucket(k)][Find(buckets[FindBucket(k)], k)][2] = want[k]
    /\ (\A k \in Keys : inserts[k] <= 1) =>
         map_len = Cardinality({k \in Keys : inserts[k] = 1})

\* every key was inserted by one call, all calls have returned, and one bucket
\* holds items inserted by different threads
C22_AllKeysInserted ==
  /\ \A t \in Threads : hpc[t] = "idle"
  /\ \A k \in Keys : inserts[k] = 1
  /\ map_len = MaxKeys
  /\ \E b \in Buckets : Len(buckets[b]) >= 2
       /\ \E i, j \in DOMAIN buckets[b] : buckets[b][i][2] # buckets[b][j][2]

\* C31: typed access through a WeakAnyRef never reaches a destroyed payload: a
\* try_downcast_ref or downcast_ref made through a WeakAnyRef by a thread that
\* owns no AnyRef returns Some only while the payload has not been dropped.
C31_WeakDowncastAlive ==
  \A t \in Threads :
    (rpc[t] \in {"dr_ret", "dc_ret"} /\ sh[t] = 0 /\ wh[t] > 0 /\ rval[t].some) =>
      dataDrops = 0

\* C32: fill replaces payload and type identifier together and nothing else:
\* the two stores of fill(this, v) put v and the type T of v into the cell and
\* change no counter, no lock field and no handle; once fill has returned with
\* no other fill under way, the caller's try_downcast_ref / downcast_ref of T
\* returns Some(v) and that of any other type (the previous one included)
\* returns None or panics.
C32_FillReplacesBoth ==
  [][\A t \in Threads :
       LET mine == filler = t /\ \A u \in Threads : rpc[u] # "fl_type"
       IN  /\ (rpc[t] = "idle" /\ rpc'[t] = "fl_type") =>
                /\ data' = farg'[t].val
                /\ UNCHANGED <<strong, weak, sh, wh, state, locked, ref_count,
                               dataDrops, freed>>
           /\ (rpc[t] = "fl_type" /\ rpc'[t] = "idle") =>
                /\ type_id' = farg[t].ty
                /\ filler' = t => data' = farg[t].val
                /\ UNCHANGED <<strong, weak, sh, wh, state, locked, ref_count,
                               dataDrops, freed>>
           /\ (mine /\ rpc[t] = "idle" /\ rpc'[t] \in {"dr_valid", "dc_valid"}) =>
                asked'[t] = farg[t].ty
           /\ (mine /\ rpc[t] = "idle" /\ rpc'[t] \in {"dr_ret", "dc_panic"}) =>
                asked'[t] # farg[t].ty /\ rval'[t] = None
           /\ (mine /\ rpc[t] \in {"dr_valid", "dc_valid"} /\ rpc'[t] # rpc[t]) =>
                rval'[t] = Some(farg[t].val) /\ rpc'[t] \in {"dr_ret", "dc_ret"}]_vars

\* a fill that changed the type and the value of the cell has returned and the
\* caller's try_downcast_ref of the new type has got the new value
C32_FilledThenRead ==
  \E t \in Threads :
    /\ filler = t /\ rpc[t] = "dr_ret" /\ sh[t] > 0
    /\ farg[t].ty # farg[t].was /\ farg[t].val # farg[t].old
    /\ asked[t] = farg[t].ty /\ rval[t] = Some(farg[t].val)

\* C33: pop of the AtomicVec reports absence only when empty: a pop that finds
\* the head null (and will return None) was called when every item whose push
\* had returned was already unlinked by a pop, or those items have been
\* unlinked by other pops since.
C33_NoneOnlyWhenEmpty ==
  \A t \in Threads :
    (vpc[t] \in {"or_swap", "or_store", "o_take"} /\ vitem[t] = 0) =>
      seen[t] \subseteq {popped[k] : k \in DOMAIN popped}

\* C34: handle lifecycle of the AtomicVec: the AtomicInner is freed exactly
\* once, by the drop of the last handle and not while a handle exists; that drop
\* frees every item that was pushed and not popped, the one parked in the temp
\* tail included; no item is freed twice or after a pop took it.
C34_LastDropFreesAll ==
  LET Returned == {popped[k] : k \in DOMAIN popped}
      Freed    == {vfreed[k] : k \in DOMAIN vfreed}
  IN  /\ vgone <= 1
      /\ (vgone = 1 \/ \E t \in Threads : vpc[t] \in {"d_walk", "d_free"}) =>
           \A t \in Threads : vh[t] = 0
      /\ (\A t \in Threads : vh[t] = 0 /\ vpc[t] = "idle") => vgone = 1
      /\ Cardinality(Freed) = Len(vfreed)
      /\ Freed \cap Returned = {}
      /\ vgone = 1 => (1 .. made) \ Returned \subseteq Freed

\* C37: a successful try_unwrap moves the payload out of the cell: the step
\* that hands the payload to the caller runs no destructor on it, and when the
\* caller drops the value it received, that is the one and only run of the
\* payload's destructor.
C37_UnwrapMovesPayload ==
  [][\A t \in Threads :
       /\ (rpc[t] = "tu_read" /\ rpc'[t] # "tu_read") =>
            unwrapped'[t] /\ dataDrops' = dataDrops
       /\ (unwrapped[t] /\ ~unwrapped'[t]) => dataDrops' = 1]_vars


\* C38: len never wraps below zero: at every moment len is at most the number
\* of insert calls started so far, and when no map method is running len is
\* the number of items linked in the buckets.
C38_LenWithinInserts ==
  /\ map_len <= SumTo([i \in 1 .. MaxKeys |-> inserts[i]], MaxKeys)
  /\ (\A t \in Threads : hpc[t] = "idle") =>
       map_len = SumTo([i \in 1 .. NBuckets |-> Len(buckets[i - 1])], NBuckets)


\* the pops that have unlinked a node and not yet decremented len
PendingPops ==
  Cardinality({t \in Threads : vpc[t] \in {"or_swap", "or_store", "o_take",
                                            "q_release", "q_take"} /\ vitem[t] # 0})

\* C40: list shape: whenever the spinlock bit of the container is free, head
\* is null exactly when tail is null, tail is the last node reachable from head
\* through the next pointers, the next of tail is null, and len counts the
\* nodes reachable from head and the nodes of the pops that have unlinked one
\* and not yet decremented len, so that len never wraps below zero.
C40_ListShape ==
  vec_state = AVAILABLE =>
    LET list == ListFrom(head, MaxItems + 1) IN
    /\ (head = 0) <=> (tail = 0)
    /\ tail # 0 => (Len(list) <= MaxItems /\ list[Len(list)] = tail /\ next[tail] = 0)
    /\ len = Len(list) + PendingPops
    /\ len <= made


\* C35: run one call at a time, the map refines a plain key -> value map: once
\* a call has returned, an insert has put its value under its key, has raised
\* len by 1 if the key was new and kept len if it was not, and has left one
\* item with that key; a remove has returned the value of a present key,
\* lowered len by 1 and made the key absent, and has returned None and changed
\* nothing for an absent key; a get or get_mut has returned the value of a
\* present key and None for an absent one and changed nothing; a key that is
\* present holds the value inserted last.
C35_RefinesPlainMap ==
  ((\A u \in Threads : hpc[u] = "idle") /\ snap.op # "none") =>
    LET k == snap.key
        t == snap.by
        old == snap.view[k]
        now == [j \in Keys |-> View(j)]
        list == buckets[FindBucket(k)] IN
    /\ snap.op = "insert" =>
         /\ now = [snap.view EXCEPT ![k] = t]
         /\ map_len = snap.len + (IF old = 0 THEN 1 ELSE 0)
         /\ Cardinality({i \in DOMAIN list : list[i][1] = k}) = 1
    /\ snap.op = "remove" =>
         /\ now = [snap.view EXCEPT ![k] = 0]
         /\ map_len = snap.len - (IF old = 0 THEN 0 ELSE 1)
         /\ hret[t] = (IF old = 0 THEN None ELSE Some(old))
    /\ snap.op \in {"get", "get_mut"} =>
         /\ now = snap.view
         /\ map_len = snap.len
         /\ hret[t] = (IF old = 0 THEN None ELSE Some(old))
         /\ (hguard[t] # NoGuard) => (old # 0 /\ hguard[t].key = k)
    /\ \A j \in Keys : now[j] # 0 => now[j] = want[j]

\* C35 witness: a key was inserted by one thread, its value replaced by the
\* insert of another, and a remove has then returned the second value and left
\* the map empty.
C35_ReplacedThenRemoved ==
  /\ \A u \in Threads : hpc[u] = "idle"
  /\ snap.op = "remove" /\ snap.by = 1
  /\ inserts[snap.key] = 2
  /\ hret[1] = Some(2)
  /\ map_len = 0

\* C36: the value guards are a reader-writer lock per bucket: a get_mut guard
\* is never live together with another guard of its bucket, and remove or an
\* updating insert never frees or destroys a value while a guard that refers to
\* it is live.
C36_GuardsExclude ==
  /\ \A t \in Threads, u \in Threads :
       (t # u /\ hguard[t].kind = "mut" /\ hguard[u].kind # "none")
         => FindBucket(hguard[t].key) # FindBucket(hguard[u].key)
  /\ \A t \in Threads :
       (hpc[t] \in {"rm_ref", "ins_upd_ref"} /\ rlpc[t] = "idle") => hvict[t] = {}

\* C39: operations on different keys cannot block each other for ever: a call
\* of the map always comes to its end unless a guard for its own key is live.
C39_OtherKeysComplete ==
  \A t \in Threads :
    []<>(\/ hpc[t] \in {"idle", "drop"}
         \/ rlpc[t] = "panicked"
         \/ \E u \in Threads : hguard[u].kind # "none" /\ hguard[u].key = hkey[t])

====
